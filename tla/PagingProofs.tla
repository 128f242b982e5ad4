----------------------------- MODULE PagingProofs -----------------------------
(***************************************************************************)
(* Proofs about module Paging, for any processes, pages, frames and blocks *)
(* of the swap area: nothing has two owners, no page of the swap area is   *)
(* lost but where a commit puts its bits back, and a program that exec has *)
(* started keeps its memory but for the pages a commit tears.              *)
(***************************************************************************)
EXTENDS Paging, FiniteSetTheorems, TLAPS

At(p, v) == pte[p][v].at
HasFrame(p, v) == pte[p][v].kind = "frame"
InSwap(p, v)   == pte[p][v].kind = "swap"

\* What the registers of a kernel call hold, at each point of it.
CallAt(p) ==
  /\ pc[p] \in {"unused", "embryo", "user", "zombie"} => call[p] = Idle
  /\ call[p].frame # Null <=> pc[p] \in {"fill", "move"}
  /\ call[p].block # Null <=> pc[p] \in {"write", "evict", "bfree"}
  /\ pc[p] \in {"write", "evict"} => call[p].victim \in Pages /\ HasFrame(p, call[p].victim)
  /\ pc[p] = "bfree" => HasFrame(p, call[p].va)
  /\ pc[p] \in {"alloc", "swap", "again"} => call[p].then \in {"fill", "move"}
  /\ call[p].then = "move" => call[p].child # Null
  /\ pc[p] \in {"copy", "move"} => call[p].child # Null

CallInv == \A p \in Procs : CallAt(p)

\* A child under construction has one parent, and no page that is still to be copied.
ChildInv ==
  /\ \A p, q \in Procs : call[p].child # Null /\ call[p].child = call[q].child => p = q
  /\ \A p, c \in Procs : call[p].child = c =>
       pc[c] = "embryo" /\ \A v \in Pages : v >= call[p].va => pte[c][v] = Unmapped
  /\ \A p \in Procs : pc[p] = "unused" => \A v \in Pages : pte[p][v] = Unmapped

\* A frame is on the free list, or under one page, or in the hands of one call, or lost.
FrameInv ==
  /\ \A p \in Procs, v \in Pages : HasFrame(p, v) => At(p, v) \notin free
  /\ \A p, q \in Procs, v, w \in Pages :
       HasFrame(p, v) /\ HasFrame(q, w) /\ At(p, v) = At(q, w) => p = q /\ v = w
  /\ \A p \in Procs : call[p].frame \notin free
  /\ \A p, q \in Procs : call[p].frame # Null /\ call[p].frame = call[q].frame => p = q
  /\ \A p, q \in Procs, v \in Pages : HasFrame(q, v) => At(q, v) # call[p].frame

\* A page of the swap area in use is one page of a process, or in the hands of one call.
SwapInv ==
  /\ \A p \in Procs, v \in Pages : InSwap(p, v) => At(p, v) \in used
  /\ \A p, q \in Procs, v, w \in Pages :
       InSwap(p, v) /\ InSwap(q, w) /\ At(p, v) = At(q, w) => p = q /\ v = w
  /\ \A p \in Procs : call[p].block # Null => call[p].block \in used
  /\ \A p, q \in Procs : call[p].block # Null /\ call[p].block = call[q].block => p = q
  /\ \A p, q \in Procs, v \in Pages : InSwap(q, v) => At(q, v) # call[p].block
  /\ \A b \in used : \/ \E p \in Procs, v \in Pages : InSwap(p, v) /\ At(p, v) = b
                     \/ \E p \in Procs : call[p].block = b

\* The bits a commit has put back belong to no page in use.
LogInv == LogTyped /\ lost \cap used = {}

OwnInv == Typed /\ LogInv /\ CallInv /\ ChildInv /\ FrameInv /\ SwapInv

\* The programs that exec has started, as long as they run.
Runs(p) == ~forked[p] /\ pc[p] \notin {"unused", "embryo", "zombie", "wrecked"}

\* Only the guard page of such a program is not accessible when it has a frame, and a
\* fault is never served where a frame is; the copy on the disk is right when its page
\* is unmapped, or a commit has torn it.
DataAt(p) ==
  /\ pc[p] = "embryo" => forked[p]
  /\ pc[p] = "fill" => call[p].then = "fill"
  /\ Runs(p) => \A v \in Pages : HasFrame(p, v) /\ ~pte[p][v].user => v = Guard /\ ram[At(p, v)] = Zero
  /\ Runs(p) /\ pc[p] \in {"alloc", "swap", "write", "evict", "again", "fill"}
       /\ call[p].then = "fill" => ~HasFrame(p, call[p].va)
  /\ pc[p] = "evict" => swap[call[p].block] \in {ram[At(p, call[p].victim)], Torn}

DataInv == \A p \in Procs : DataAt(p)

IInv == OwnInv /\ DataInv

-----------------------------------------------------------------------------
(* Types, and the two choices *)

LEMMA LeastOf ==
  ASSUME NEW T \in SUBSET Nat, T # {}
  PROVE  \E x \in T : \A y \in T : x <= y
<1>. DEFINE R == {ss \in Nat \X Nat : ss[1] < ss[2]}
<1>1. IsWellFoundedOn(R, Nat)
  BY NatLessThanWellFounded DEF OpToRel
<1>2. PICK x \in T : \A y \in T : <<y, x>> \notin R
  BY <1>1, WFMin
<1>3. ASSUME NEW y \in T PROVE x <= y
  <2>1. x \in Nat /\ y \in Nat
    OBVIOUS
  <2>2. ~(y < x)
    BY <1>2, <2>1
  <2>3. QED
    BY <2>1, <2>2
<1>4. QED
  BY <1>3

LEMMA EntryKinds ==
  /\ \A e \in Entries : /\ e.kind \in {"none", "frame", "swap"}
                        /\ e.kind = "frame" => e.at \in Frames
                        /\ e.kind = "swap" => e.at \in Swap
                        /\ e.kind = "none" <=> e = Unmapped
                        /\ e.user \in BOOLEAN
                        /\ e.user => e.kind = "frame"
  /\ Unmapped \in Entries /\ Unmapped.kind = "none"
  /\ \A f \in Frames, u \in BOOLEAN : LET e == Entry("frame", f, u) IN
       e \in Entries /\ e.kind = "frame" /\ e.at = f /\ e.user = u
  /\ \A b \in Swap : LET e == Entry("swap", b, FALSE) IN
       e \in Entries /\ e.kind = "swap" /\ e.at = b /\ e.user = FALSE
<1>1. ASSUME NEW e \in Entries
      PROVE  /\ e.kind \in {"none", "frame", "swap"}
             /\ e.kind = "frame" => e.at \in Frames
             /\ e.kind = "swap" => e.at \in Swap
             /\ e.kind = "none" <=> e = Unmapped
             /\ e.user \in BOOLEAN
             /\ e.user => e.kind = "frame"
  <2>1. CASE e = Unmapped
    BY <2>1 DEF Unmapped, Entry
  <2>2. CASE e \in [kind : {"frame"}, at : Frames, user : BOOLEAN]
    BY <2>2 DEF Unmapped, Entry
  <2>3. CASE e \in [kind : {"swap"}, at : Swap, user : {FALSE}]
    <3>1. e.kind = "swap" /\ e.at \in Swap
      BY <2>3
    <3>2. e.user = FALSE
      BY <2>3
    <3>3. e # Unmapped
      BY <3>1 DEF Unmapped, Entry
    <3>4. QED
      BY <3>1, <3>2, <3>3
  <2>4. QED
    BY <2>1, <2>2, <2>3 DEF Entries
<1>2. Unmapped \in Entries /\ Unmapped.kind = "none"
  BY DEF Entries, Entry, Unmapped
<1>3. ASSUME NEW f \in Frames, NEW u \in BOOLEAN
      PROVE  LET e == Entry("frame", f, u) IN
             e \in Entries /\ e.kind = "frame" /\ e.at = f /\ e.user = u
  BY <1>3 DEF Entries, Entry
<1>4. ASSUME NEW b \in Swap
      PROVE  LET e == Entry("swap", b, FALSE) IN
             e \in Entries /\ e.kind = "swap" /\ e.at = b /\ e.user = FALSE
  BY DEF Entries, Entry
<1>5. QED
  BY <1>1, <1>2, <1>3, <1>4

\* balloc_page finds a free run, or balloc panics.
LEMMA RoomInSwap ==
  ASSUME FreeSwap # {}
  PROVE  FirstFree \in Swap \ used /\ FirstFree \notin lost
<1>1. FreeSwap \in SUBSET Nat
  BY DEF FreeSwap, Swap
<1>2. \E b \in FreeSwap : \A d \in FreeSwap : b <= d
  BY <1>1, LeastOf
<1>3. FirstFree \in FreeSwap
  BY <1>2 DEF FirstFree
<1>4. QED
  BY <1>3 DEF FreeSwap

LEMMA VictimIsCandidate ==
  ASSUME NEW p \in Procs, Candidates(p) # {}
  PROVE  Victim(p) \in Pages /\ HasFrame(p, Victim(p))
<1>1. Candidates(p) \in SUBSET Nat
  BY SizeAssumption DEF Candidates, Pages
<1>2. \E v \in Candidates(p) : \A w \in Candidates(p) : v <= w
  BY <1>1, LeastOf
<1>3. Victim(p) \in Candidates(p)
  BY <1>2 DEF Victim
<1>4. QED
  BY <1>3 DEF Candidates, HasFrame

CallType ==
  [va : Pages, frame : Frames \cup {Null}, victim : Pages \cup {Null}, block : Swap \cup {Null},
   src : Entries, then : {"fill", "move", "return"}, child : Procs \cup {Null}]

Tables == [Procs -> [Pages -> Entries]]

LEMMA IdleType ==
  /\ Idle \in CallType /\ 0 \in Pages /\ Guard \in Pages
  /\ Idle.va = 0 /\ Idle.frame = Null /\ Idle.victim = Null /\ Idle.block = Null
  /\ Idle.src = Unmapped /\ Idle.then = "fill" /\ Idle.child = Null
<1>1. 0 \in Pages /\ Guard \in Pages
  BY SizeAssumption DEF Pages, Guard
<1>2. QED
  BY <1>1, EntryKinds DEF Idle, CallType

\* One entry of one page table is set.
LEMMA SetPage ==
  ASSUME pte \in Tables, NEW p \in Procs, NEW v \in Pages, NEW e \in Entries,
         pte' = [pte EXCEPT ![p][v] = e]
  PROVE  /\ pte' \in Tables /\ pte'[p][v] = e
         /\ \A q \in Procs, w \in Pages : q # p \/ w # v => pte'[q][w] = pte[q][w]
BY DEF Tables

\* balloc_page adds one page to the swap area, bfree_page takes one off.
LEMMA SetSwap ==
  ASSUME Typed, NEW b \in Swap, swap' = Marked(b)
  PROVE  used' = used \cup {b} /\ swap' \in [used' -> Content] /\ used' \subseteq Swap
<1>1. used' = used \cup {b}
  BY DEF used, Marked
<1>2. Zero \in Content /\ \A x \in used : swap[x] \in Content
  BY DEF Typed, Content
<1>3. QED
  BY <1>1, <1>2 DEF Typed, Marked

LEMMA DropSwap ==
  ASSUME Typed, NEW b, swap' = Restrict(swap, used \ {b})
  PROVE  used' = used \ {b} /\ swap' \in [used' -> Content] /\ used' \subseteq Swap
<1>1. swap' = [x \in used \ {b} |-> swap[x]]
  BY DEF Restrict
<1>2. used' = used \ {b}
  BY <1>1 DEF used
<1>3. QED
  BY <1>1, <1>2 DEF Typed

LEMMA TypeStep ==
  ASSUME OwnInv, [Next]_vars
  PROVE  Typed'
<1>0. /\ Typed /\ CallInv /\ pte \in Tables /\ call \in [Procs -> CallType]
      /\ \A p \in Procs, v \in Pages : pte[p][v] \in Entries
  BY DEF OwnInv, Typed, Tables, CallType
<1>1. ASSUME NEW p \in Procs, NEW v \in Pages, Write(p, v) PROVE Typed'
  <2>1. pte[p][v].at \in Frames
    BY <1>0, <1>1, EntryKinds DEF Write, Accessible
  <2>2. Written(p, v) \in Content
    BY DEF Written, Content
  <2>3. QED
    BY <1>0, <1>1, <2>1, <2>2 DEF Write, Typed, used
<1>2. ASSUME NEW p \in Procs, Exit(p) \/ Reap(p) \/ NoVictim(p) PROVE Typed'
  BY <1>0, <1>2 DEF Exit, Reap, NoVictim, Goto, Typed, used
<1>3. ASSUME NEW p \in Procs, NEW v \in Pages, Fault(p, v) PROVE Typed'
  <2>1. call' \in [Procs -> CallType]
    BY <1>0, <1>3 DEF Fault, CallType
  <2>2. QED
    BY <1>0, <1>3, <2>1 DEF Fault, Goto, Typed, CallType, used, Kernel
<1>4. ASSUME NEW p \in Procs, WritePage(p) PROVE Typed'
  <2>1. call[p].victim \in Pages /\ HasFrame(p, call[p].victim)
    BY <1>0, <1>4 DEF WritePage, CallInv, CallAt
  <2>2. ram[pte[p][call[p].victim].at] \in Content
    BY <1>0, <2>1, EntryKinds DEF HasFrame, Typed
  <2>3. used' = used /\ swap' \in [used' -> Content]
    BY <1>0, <1>4, <2>2 DEF WritePage, Typed, used
  <2>4. QED
    BY <1>0, <1>4, <2>3 DEF WritePage, Goto, Typed, Kernel
<1>5. ASSUME NEW p \in Procs, Copy(p) PROVE Typed'
  <2>1. call[p].va \in Pages /\ call[p] \in CallType
    BY <1>0 DEF CallType
  <2>2. pte[p][call[p].va] \in Entries
    BY <1>0, <2>1
  <2>3. call' \in [Procs -> CallType]
    BY <1>0, <1>5, <2>1, <2>2 DEF Copy, CallType
  <2>4. QED
    BY <1>0, <1>5, <2>3 DEF Copy, Goto, Typed, CallType, used, Kernel
<1>6. ASSUME NEW p \in Procs, NEW c \in Procs, Fork(p, c) PROVE Typed'
  <2>1. call' \in [Procs -> CallType]
    BY <1>0, <1>6, IdleType DEF Fork, CallType
  <2>2. QED
    BY <1>0, <1>6, <2>1 DEF Fork, Typed, CallType, used, Kernel
<1>7. ASSUME NEW p \in Procs, Alloc(p) \/ Again(p) PROVE Typed'
  <2>1. call[p].then \in {"fill", "move"}
    BY <1>0, <1>7 DEF Alloc, Again, CallInv, CallAt
  <2>2. call' \in [Procs -> CallType] /\ free' \subseteq Frames
    <3>1. CASE free # {}
      <4>1. PICK f \in free : call' = [call EXCEPT ![p].frame = f] /\ free' = free \ {f}
        BY <1>7, <3>1 DEF Alloc, Again, TakeFrame, Unlink
      <4>2. f \in Frames
        BY <1>0 DEF Typed
      <4>3. [call[p] EXCEPT !.frame = f] \in CallType
        BY <1>0, <4>2 DEF CallType
      <4>4. call' \in [Procs -> CallType]
        BY <1>0, <4>1, <4>3
      <4>5. QED
        BY <1>0, <4>1, <4>4 DEF Typed
    <3>2. CASE free = {}
      BY <1>0, <1>7, <3>2 DEF Alloc, Again, Typed
    <3>3. QED
      BY <3>1, <3>2
  <2>3. pc' \in [Procs -> Kernel \cup {"unused", "embryo", "user", "zombie", "wrecked"}]
    BY <1>0, <1>7, <2>1 DEF Alloc, Again, TakeFrame, Goto, Typed, Kernel
  <2>4. QED
    BY <1>0, <1>7, <2>2, <2>3 DEF Alloc, Again, Typed, CallType, used
<1>8. ASSUME NEW p \in Procs, SwapOut(p) PROVE Typed'
  <2>1. FirstFree \in Swap /\ Victim(p) \in Pages
    BY <1>8, RoomInSwap, VictimIsCandidate DEF SwapOut, Balloc
  <2>2. call' \in [Procs -> CallType]
    <3>1. [call[p] EXCEPT !.victim = Victim(p), !.block = FirstFree] \in CallType
      BY <1>0, <2>1 DEF CallType
    <3>2. call' = [call EXCEPT ![p] = [call[p] EXCEPT !.victim = Victim(p), !.block = FirstFree]]
      BY <1>8 DEF SwapOut
    <3>3. QED
      BY <1>0, <3>1, <3>2
  <2>3. swap' \in [used' -> Content] /\ used' \subseteq Swap
    BY <1>0, <1>8, <2>1, SetSwap DEF SwapOut, Balloc
  <2>4. QED
    BY <1>0, <1>8, <2>2, <2>3 DEF SwapOut, Goto, Typed, CallType, Kernel
<1>9. ASSUME NEW p \in Procs, NEW v \in Pages, SysSwap(p, v) PROVE Typed'
  <2>1. FirstFree \in Swap
    BY <1>9, RoomInSwap DEF SysSwap, Balloc
  <2>2. call' \in [Procs -> CallType]
    BY <1>0, <1>9, <2>1, IdleType DEF SysSwap, CallType
  <2>3. swap' \in [used' -> Content] /\ used' \subseteq Swap
    BY <1>0, <1>9, <2>1, SetSwap DEF SysSwap, Balloc
  <2>4. QED
    BY <1>0, <1>9, <2>2, <2>3 DEF SysSwap, Goto, Typed, CallType, Kernel
<1>10. ASSUME NEW p \in Procs, Evict(p) PROVE Typed'
  <2>1. /\ call[p].victim \in Pages /\ HasFrame(p, call[p].victim) /\ call[p].block \in Swap
        /\ call[p] \in CallType
    BY <1>0, <1>10 DEF Evict, CallInv, CallAt, CallType
  <2>2. At(p, call[p].victim) \in Frames
    BY <1>0, <2>1, EntryKinds DEF HasFrame, At
  <2>3. pte' \in Tables
    BY <1>0, <1>10, <2>1, EntryKinds, SetPage DEF Evict
  <2>4. call' \in [Procs -> CallType]
    BY <1>0, <1>10, <2>1, IdleType DEF Evict, CallType
  <2>5. ram' \in [Frames -> Content] /\ free' \subseteq Frames
    BY <1>0, <1>10, <2>2 DEF Evict, Typed, Content, At
  <2>6. pc' \in [Procs -> Kernel \cup {"unused", "embryo", "user", "zombie", "wrecked"}]
    BY <1>0, <1>10 DEF Evict, Goto, Typed, Kernel
  <2>7. QED
    BY <1>0, <1>10, <2>3, <2>4, <2>5, <2>6 DEF Evict, Typed, CallType, Tables, used
<1>11. ASSUME NEW p \in Procs, FillSwapped(p) PROVE Typed'
  <2>1. /\ call[p].va \in Pages /\ call[p].frame \in Frames /\ call[p] \in CallType
        /\ InSwap(p, call[p].va)
    BY <1>0, <1>11 DEF FillSwapped, CallInv, CallAt, CallType, InSwap
  <2>2. At(p, call[p].va) \in Swap /\ swap[At(p, call[p].va)] \in Content
    BY <1>0, <2>1, EntryKinds DEF InSwap, At, OwnInv, SwapInv, Typed
  <2>3. pte' \in Tables
    BY <1>0, <1>11, <2>1, EntryKinds, SetPage DEF FillSwapped
  <2>4. call' \in [Procs -> CallType]
    BY <1>0, <1>11, <2>1, <2>2 DEF FillSwapped, CallType, At
  <2>5. ram' \in [Frames -> Content]
    BY <1>0, <1>11, <2>1, <2>2 DEF FillSwapped, ReadPage, Typed, At
  <2>6. QED
    BY <1>0, <1>11, <2>3, <2>4, <2>5 DEF FillSwapped, Goto, Typed, CallType, Tables, used, Kernel
<1>12. ASSUME NEW p \in Procs, Keep(p) \in CallType, Bfree(p) \/ FillZero(p) PROVE Typed'
  <2>1. call' \in [Procs -> CallType]
    BY <1>0, <1>12 DEF Bfree, FillZero
  <2>2. pc' \in [Procs -> Kernel \cup {"unused", "embryo", "user", "zombie", "wrecked"}]
    BY <1>0, <1>12 DEF Bfree, FillZero, Goto, Back, Typed, Kernel
  <2>3. CASE Bfree(p)
    <3>1. swap' \in [used' -> Content] /\ used' \subseteq Swap
      BY <1>0, <2>3, DropSwap DEF Bfree, Release
    <3>2. QED
      BY <1>0, <2>1, <2>2, <2>3, <3>1 DEF Bfree, Typed, CallType
  <2>4. CASE FillZero(p)
    <3>1. call[p].va \in Pages /\ call[p].frame \in Frames
      BY <1>0, <2>4 DEF FillZero, CallInv, CallAt, CallType
    <3>2. pte' \in Tables
      BY <1>0, <2>4, <3>1, EntryKinds, SetPage DEF FillZero
    <3>3. ram' \in [Frames -> Content]
      BY <1>0, <2>4 DEF FillZero, Typed, Content
    <3>4. QED
      BY <1>0, <2>1, <2>2, <2>4, <3>2, <3>3 DEF FillZero, Typed, CallType, Tables, used
  <2>5. QED
    BY <1>12, <2>3, <2>4
<1>13. ASSUME NEW p \in Procs PROVE Keep(p) \in CallType
  BY <1>0, IdleType DEF Keep, CallType
<1>14. ASSUME NEW p \in Procs, Move(p) PROVE Typed'
  <2>1. /\ call[p].va \in Pages /\ call[p].frame \in Frames /\ call[p].child \in Procs
        /\ call[p].src \in Entries
    BY <1>0, <1>14 DEF Move, CallInv, CallAt, CallType
  <2>2. pte' \in Tables
    BY <1>0, <1>14, <2>1, EntryKinds, SetPage DEF Move
  <2>3. call' \in [Procs -> CallType]
    <3>1. ~LastPage(p) => call[p].va + 1 \in Pages
      BY <2>1, SizeAssumption DEF LastPage, Pages
    <3>2. QED
      BY <1>0, <1>14, <2>1, <3>1, IdleType DEF Move, CallType
  <2>4. ram' \in [Frames -> Content]
    <3>1. call[p].src.kind = "frame" => ram[call[p].src.at] \in Content
      BY <1>0, <2>1, EntryKinds DEF Typed
    <3>2. QED
      BY <1>0, <1>14, <3>1 DEF Move, Typed, Content
  <2>5. pc' \in [Procs -> Kernel \cup {"unused", "embryo", "user", "zombie", "wrecked"}]
    BY <1>0, <1>14 DEF Move, Typed, Kernel
  <2>6. QED
    BY <1>0, <1>14, <2>2, <2>3, <2>4, <2>5 DEF Move, Typed, CallType, Tables, used
<1>15. ASSUME NEW p \in Procs, Start(p) PROVE Typed'
  <2>1. PICK at \in Injection(0..TextPages + 1, free) :
          /\ pte' = [pte EXCEPT ![p] = [v \in Pages |->
               IF v \in DOMAIN at THEN Entry("frame", at[v], v # Guard) ELSE Unmapped]]
          /\ ram' = [f \in Frames |->
               IF f \notin Range(at) THEN ram[f]
               ELSE LET v == AntiFunction(at)[f]
                    IN  IF v # Guard THEN Written(p, v) ELSE Zero]
          /\ free' = free \ Range(at)
    BY <1>15 DEF Start
  <2>2. DOMAIN at = 0..TextPages + 1 /\ \A v \in 0..TextPages + 1 : at[v] \in free
    BY DEF Injection
  <2>3. pte' \in Tables
    <3>1. ASSUME NEW v \in Pages
          PROVE  (IF v \in DOMAIN at THEN Entry("frame", at[v], v # Guard) ELSE Unmapped) \in Entries
      <4>1. v \in DOMAIN at => at[v] \in Frames
        BY <1>0, <2>2 DEF Typed
      <4>2. (v # Guard) \in BOOLEAN
        OBVIOUS
      <4>3. QED
        BY <4>1, <4>2, EntryKinds
    <3>2. QED
      BY <1>0, <2>1, <3>1 DEF Tables
  <2>4. ram' \in [Frames -> Content]
    <3>1. ASSUME NEW f \in Frames, f \in Range(at), AntiFunction(at)[f] # Guard
          PROVE  Written(p, AntiFunction(at)[f]) \in Content
      <4>1. AntiFunction(at)[f] \in 0..TextPages + 1
        <5>1. \E v \in DOMAIN at : at[v] = f
          BY <3>1 DEF Range
        <5>2. AntiFunction(at)[f] = CHOOSE v \in DOMAIN at : f \in Range(at) => at[v] = f
          BY <3>1 DEF AntiFunction, Inverse
        <5>3. QED
          BY <2>2, <5>1, <5>2
      <4>2. AntiFunction(at)[f] \in Pages
        BY <3>1, <4>1, SizeAssumption DEF Pages
      <4>3. QED
        BY <4>2 DEF Written, Content
    <3>2. QED
      BY <1>0, <2>1, <3>1 DEF Typed, Content
  <2>5. free' \subseteq Frames
    BY <1>0, <2>1 DEF Typed
  <2>6. QED
    BY <1>0, <1>15, <2>3, <2>4, <2>5 DEF Start, Goto, Typed, Tables, Kernel, used
<1>16. ASSUME NEW p \in Procs, NEW v \in Pages, FreePage(p, v) PROVE Typed'
  <2>1. pte' \in Tables
    BY <1>0, <1>16, EntryKinds, SetPage DEF FreePage
  <2>2. CASE InSwap(p, v)
    <3>1. swap' \in [used' -> Content] /\ used' \subseteq Swap
      BY <1>0, <1>16, <2>2, DropSwap DEF FreePage, Release, InSwap
    <3>2. QED
      BY <1>0, <1>16, <2>1, <2>2, <3>1 DEF FreePage, Typed, Tables, InSwap
  <2>3. CASE ~InSwap(p, v)
    <3>1. pte[p][v].at \in Frames
      BY <1>0, <1>16, <2>3, EntryKinds DEF FreePage, InSwap
    <3>2. swap' = swap /\ free' = free \cup {pte[p][v].at} /\ ram' = [ram EXCEPT ![pte[p][v].at] = Junk]
      BY <1>16, <2>3 DEF FreePage, InSwap
    <3>3. free' \subseteq Frames /\ ram' \in [Frames -> Content]
      BY <1>0, <3>1, <3>2 DEF Typed, Content
    <3>4. QED
      BY <1>0, <1>16, <2>1, <3>2, <3>3 DEF FreePage, Typed, Tables, used
  <2>4. QED
    BY <2>2, <2>3
<1>17. CASE Install
  <2>1. used' = used /\ swap' \in [used -> Content]
    <3>1. Torn \in Content
      BY DEF Content
    <3>2. QED
      BY <1>0, <1>17, <3>1 DEF Install, Installed, Typed, used
  <2>2. QED
    BY <1>0, <1>17, <2>1 DEF Install, Typed
<1>18. CASE WriteLog \/ UNCHANGED vars
  BY <1>0, <1>18 DEF vars, WriteLog, Typed, used
<1>19. QED
  BY <1>1, <1>2, <1>3, <1>4, <1>5, <1>6, <1>7, <1>8, <1>9, <1>10, <1>11, <1>12, <1>13, <1>14,
     <1>15, <1>16, <1>17, <1>18, ForkAssumption DEF Next, KernelStep

-----------------------------------------------------------------------------
(* The registers of the calls, and the children *)

LEMMA CallRests ==
  ASSUME NEW q \in Procs, CallAt(q), call'[q] = call[q], pc'[q] = pc[q], pte'[q] = pte[q]
  PROVE  CallAt(q)'
BY DEF CallAt, HasFrame

LEMMA CallStep ==
  ASSUME OwnInv, [Next]_vars
  PROVE  CallInv'
<1>0. /\ Typed /\ CallInv /\ ChildInv /\ pte \in Tables /\ call \in [Procs -> CallType]
      /\ DOMAIN pc = Procs
      /\ \A p \in Procs, v \in Pages : pte[p][v] \in Entries
  BY DEF OwnInv, Typed, Tables, CallType
<1>1. ASSUME NEW p \in Procs, CallAt(p)',
             \A q \in Procs : q # p => call'[q] = call[q] /\ pc'[q] = pc[q] /\ pte'[q] = pte[q]
      PROVE  CallInv'
  BY <1>0, <1>1, CallRests DEF CallInv
<1>2. ASSUME NEW p \in Procs, NEW v \in Pages, Write(p, v) PROVE CallInv'
  BY <1>0, <1>2, CallRests DEF Write, CallInv
<1>3. ASSUME NEW p \in Procs, Exit(p) \/ Reap(p) PROVE CallInv'
  <2>1. CallAt(p)'
    BY <1>0, <1>3, IdleType DEF Exit, Reap, Goto, CallInv, CallAt
  <2>2. QED
    BY <1>0, <1>1, <1>3, <2>1 DEF Exit, Reap, Goto
<1>4. ASSUME NEW p \in Procs, NEW v \in Pages, Fault(p, v) PROVE CallInv'
  <2>1. call'[p] = [Idle EXCEPT !.va = v] /\ pc'[p] = "alloc"
    BY <1>0, <1>4 DEF Fault, Goto, CallInv, CallAt
  <2>2. CallAt(p)'
    BY <2>1, IdleType DEF CallAt, Idle
  <2>3. QED
    BY <1>0, <1>1, <1>4, <2>2 DEF Fault, Goto
<1>5. ASSUME NEW p \in Procs, WritePage(p) \/ NoVictim(p) PROVE CallInv'
  <2>1. CallAt(p)'
    BY <1>0, <1>5 DEF WritePage, NoVictim, Goto, CallInv, CallAt, HasFrame
  <2>2. QED
    BY <1>0, <1>1, <1>5, <2>1 DEF WritePage, NoVictim, Goto
<1>6. ASSUME NEW p \in Procs, Copy(p) PROVE CallInv'
  <2>1. /\ pc[p] = "copy" /\ pc'[p] = "alloc" /\ call'[p].then \in {"fill", "move"}
        /\ call'[p].frame = call[p].frame /\ call'[p].block = call[p].block
        /\ call'[p].child = call[p].child
    BY <1>0, <1>6 DEF Copy, Goto, CallType
  <2>2. CallAt(p)'
    BY <1>0, <2>1 DEF CallInv, CallAt
  <2>3. QED
    BY <1>0, <1>1, <1>6, <2>2 DEF Copy, Goto
<1>7. ASSUME NEW p \in Procs, NEW c \in Procs, Fork(p, c) PROVE CallInv'
  <2>1. /\ call'[p] = [Idle EXCEPT !.child = c] /\ pc'[p] = "copy" /\ p # c /\ c # Null
        /\ pc'[c] = "embryo" /\ call'[c] = call[c] /\ pc[c] = "unused"
    BY <1>0, <1>7, NullAssumption DEF Fork
  <2>2. CallAt(p)'
    BY <2>1, IdleType DEF CallAt, Idle
  <2>3. CallAt(c)'
    BY <1>0, <2>1, IdleType DEF CallInv, CallAt
  <2>4. \A q \in Procs : q # p /\ q # c => call'[q] = call[q] /\ pc'[q] = pc[q] /\ pte'[q] = pte[q]
    BY <1>0, <1>7 DEF Fork
  <2>5. QED
    BY <1>0, <2>2, <2>3, <2>4, CallRests DEF CallInv
<1>8. ASSUME NEW p \in Procs, Alloc(p) \/ Again(p) PROVE CallInv'
  <2>1. /\ pc[p] \in {"alloc", "again"} /\ call[p].frame = Null /\ call[p].block = Null
        /\ call[p].then \in {"fill", "move"} /\ call[p] \in CallType
    BY <1>0, <1>8 DEF Alloc, Again, CallInv, CallAt
  <2>2. CASE free # {}
    <3>1. PICK f \in free : call' = [call EXCEPT ![p].frame = f]
      BY <1>8, <2>2 DEF Alloc, Again, TakeFrame
    <3>2. f # Null /\ pc' = [pc EXCEPT ![p] = call[p].then]
      BY <1>0, <1>8, <2>2, NullAssumption DEF Alloc, Again, TakeFrame, Goto, Typed
    <3>3. /\ call'[p].frame = f /\ call'[p].block = Null /\ call'[p].then = call[p].then
          /\ call'[p].child = call[p].child /\ pc'[p] = call[p].then
      BY <1>0, <2>1, <3>1, <3>2 DEF CallType
    <3>4. CallAt(p)'
      BY <1>0, <2>1, <3>2, <3>3 DEF CallInv, CallAt
    <3>5. QED
      BY <1>0, <1>1, <1>8, <3>1, <3>2, <3>4 DEF Alloc, Again
  <2>3. CASE free = {}
    <3>1. call' = call /\ pc'[p] \in {"swap", "wrecked"}
      BY <1>0, <1>8, <2>3 DEF Alloc, Again, Goto
    <3>2. CallAt(p)'
      BY <1>0, <2>1, <3>1 DEF CallInv, CallAt
    <3>3. QED
      BY <1>0, <1>1, <1>8, <2>3, <3>2 DEF Alloc, Again, Goto
  <2>4. QED
    BY <2>2, <2>3
<1>9. ASSUME NEW p \in Procs, SwapOut(p) PROVE CallInv'
  <2>1. FirstFree # Null /\ Victim(p) \in Pages /\ HasFrame(p, Victim(p))
    BY <1>9, RoomInSwap, VictimIsCandidate, NullAssumption DEF SwapOut, Balloc, Swap
  <2>2. call' = [call EXCEPT ![p] = [call[p] EXCEPT !.victim = Victim(p), !.block = FirstFree]]
    BY <1>9 DEF SwapOut
  <2>3. /\ pc[p] = "swap" /\ pc'[p] = "write" /\ call'[p].victim = Victim(p)
        /\ call'[p].block = FirstFree /\ call'[p].frame = call[p].frame
        /\ call'[p].then = call[p].then /\ call'[p].child = call[p].child
    BY <1>0, <1>9, <2>2 DEF SwapOut, Goto, CallType
  <2>4. CallAt(p)'
    BY <1>0, <1>9, <2>1, <2>3 DEF SwapOut, CallInv, CallAt, HasFrame
  <2>5. QED
    BY <1>0, <1>1, <1>9, <2>2, <2>4 DEF SwapOut, Goto
<1>10. ASSUME NEW p \in Procs, NEW v \in Pages, SysSwap(p, v) PROVE CallInv'
  <2>1. FirstFree # Null /\ HasFrame(p, v)
    BY <1>10, RoomInSwap, NullAssumption DEF SysSwap, Balloc, Swap, HasFrame
  <2>2. /\ pc'[p] = "write" /\ call'[p].victim = v /\ call'[p].block = FirstFree
        /\ call'[p].frame = Null /\ call'[p].then = "return" /\ pte' = pte
    BY <1>0, <1>10, IdleType DEF SysSwap, Goto, Idle
  <2>3. CallAt(p)'
    BY <2>1, <2>2 DEF CallAt, HasFrame
  <2>4. QED
    BY <1>0, <1>1, <1>10, <2>3 DEF SysSwap, Goto
<1>11. ASSUME NEW p \in Procs, Evict(p) PROVE CallInv'
  <2>1. \A q \in Procs : q # p => call'[q] = call[q] /\ pc'[q] = pc[q] /\ pte'[q] = pte[q]
    BY <1>0, <1>11 DEF Evict, Goto, Tables
  <2>2. CASE call[p].then = "return"
    <3>1. call'[p] = Idle /\ pc'[p] = "user"
      BY <1>0, <1>11, <2>2 DEF Evict, Goto
    <3>2. CallAt(p)'
      BY <3>1, IdleType DEF CallAt
    <3>3. QED
      BY <1>1, <2>1, <3>2
  <2>3. CASE call[p].then # "return"
    <3>1. /\ call' = [call EXCEPT ![p] = [call[p] EXCEPT !.victim = Null, !.block = Null]]
          /\ pc'[p] = "again" /\ pc[p] = "evict"
      BY <1>0, <1>11, <2>3 DEF Evict, Goto
    <3>2. /\ call'[p].block = Null /\ call'[p].frame = call[p].frame
          /\ call'[p].then = call[p].then /\ call'[p].child = call[p].child
          /\ call[p].then \in {"fill", "move"}
      BY <1>0, <2>3, <3>1 DEF CallType
    <3>3. CallAt(p)'
      BY <1>0, <3>1, <3>2 DEF CallInv, CallAt
    <3>4. QED
      BY <1>1, <2>1, <3>3
  <2>4. QED
    BY <2>2, <2>3
<1>12. ASSUME NEW p \in Procs, FillSwapped(p) PROVE CallInv'
  <2>1. /\ call[p].va \in Pages /\ call[p].frame \in Frames /\ call[p] \in CallType
        /\ At(p, call[p].va) \in Swap
    BY <1>0, <1>12, EntryKinds DEF FillSwapped, CallInv, CallAt, CallType, At
  <2>2. call' = [call EXCEPT ![p] = [call[p] EXCEPT !.frame = Null, !.block = At(p, call[p].va)]]
    BY <1>12 DEF FillSwapped, At
  <2>3. /\ call'[p].frame = Null /\ call'[p].block = At(p, call[p].va) /\ call'[p].va = call[p].va
        /\ call'[p].then = call[p].then /\ call'[p].child = call[p].child /\ pc'[p] = "bfree"
        /\ pc[p] = "fill"
    <3>1. call'[p] = [call[p] EXCEPT !.frame = Null, !.block = At(p, call[p].va)]
      BY <1>0, <2>2
    <3>2. pc'[p] = "bfree" /\ pc[p] = "fill"
      BY <1>0, <1>12 DEF FillSwapped, Goto
    <3>3. QED
      BY <2>1, <3>1, <3>2 DEF CallType
  <2>4. At(p, call[p].va) # Null
    BY <2>1, NullAssumption DEF Swap
  <2>5. HasFrame(p, call[p].va)'
    <3>1. PICK v \in Pages : v = call[p].va
      BY <2>1
    <3>2. PICK e \in Entries : e = Entry("frame", call[p].frame, TRUE)
      BY <2>1, EntryKinds
    <3>3. pte'[p][v] = e
      <4>1. pte' = [pte EXCEPT ![p][v] = e]
        BY <1>12, <3>1, <3>2 DEF FillSwapped
      <4>2. QED
        BY <1>0, <4>1 DEF Tables
    <3>4. call'[p].va = v
      BY <2>3, <3>1
    <3>5. QED
      BY <3>2, <3>3, <3>4 DEF HasFrame, Entry
  <2>6. CallAt(p)'
    BY <1>0, <2>3, <2>4, <2>5 DEF CallInv, CallAt
  <2>7. QED
    BY <1>0, <1>1, <1>12, <2>2, <2>6 DEF FillSwapped, Goto, Tables
<1>13. ASSUME NEW p \in Procs, Bfree(p) \/ FillZero(p) PROVE CallInv'
  <2>1. /\ call'[p] = Keep(p) /\ pc'[p] = Back(p)
        /\ \A q \in Procs : q # p => call'[q] = call[q] /\ pc'[q] = pc[q] /\ pte'[q] = pte[q]
    BY <1>0, <1>13 DEF Bfree, FillZero, Goto, Tables
  <2>2. CASE call[p].child = Null
    <3>1. Keep(p) = Idle /\ Back(p) = "user"
      <4>1. Keep(p) = [Idle EXCEPT !.child = Null, !.va = 0]
        BY <2>2 DEF Keep
      <4>2. [Idle EXCEPT !.child = Null, !.va = 0] = Idle
        <5>. DEFINE i == [Idle EXCEPT !.child = Null, !.va = 0]
        <5>1. /\ DOMAIN i = DOMAIN Idle /\ i = [f \in DOMAIN Idle |-> i[f]]
              /\ Idle = [f \in DOMAIN Idle |-> Idle[f]]
          BY DEF Idle
        <5>2. \A f \in DOMAIN Idle : i[f] = Idle[f]
          BY IdleType
        <5>3. QED
          BY <5>1, <5>2
      <4>3. QED
        BY <2>2, <4>1, <4>2 DEF Back
    <3>2. CallAt(p)'
      BY <2>1, <3>1, IdleType DEF CallAt
    <3>3. QED
      BY <1>1, <2>1, <3>2
  <2>3. CASE call[p].child # Null
    <3>1. /\ Keep(p).frame = Null /\ Keep(p).block = Null /\ Keep(p).then = "fill"
          /\ Keep(p).child = call[p].child /\ Back(p) = "copy"
      BY <2>3 DEF Keep, Back, Idle
    <3>2. CallAt(p)'
      BY <2>1, <2>3, <3>1 DEF CallAt
    <3>3. QED
      BY <1>1, <2>1, <3>2
  <2>4. QED
    BY <2>2, <2>3
<1>14. ASSUME NEW p \in Procs, Move(p) PROVE CallInv'
  <2>0. PICK c \in Procs : c = call[p].child
    BY <1>0, <1>14 DEF Move, CallInv, CallAt, CallType
  <2>1. c # Null /\ pc[c] = "embryo" /\ c # p /\ call[c] = Idle /\ pc[p] = "move"
    BY <1>0, <1>14, <2>0 DEF Move, CallInv, CallAt, ChildInv
  <2>2. /\ call'[c] = Idle /\ pc'[c] \in {"embryo", "user"}
        /\ \/ call'[p] = Idle /\ pc'[p] = "user"
           \/ call'[p] = [Idle EXCEPT !.child = c, !.va = call[p].va + 1] /\ pc'[p] = "copy"
        /\ \A q \in Procs : q # p /\ q # c => call'[q] = call[q] /\ pc'[q] = pc[q] /\ pte'[q] = pte[q]
    BY <1>0, <1>14, <2>0, <2>1 DEF Move, Tables
  <2>3. CallAt(p)'
    BY <2>1, <2>2, IdleType DEF CallAt, Idle
  <2>4. CallAt(c)'
    BY <2>2, IdleType DEF CallAt
  <2>5. QED
    BY <1>0, <2>2, <2>3, <2>4, CallRests DEF CallInv
<1>15. ASSUME NEW p \in Procs, Start(p) PROVE CallInv'
  <2>1. /\ pc[p] = "unused" /\ pc'[p] = "user" /\ call' = call
        /\ \A q \in Procs : q # p => pc'[q] = pc[q] /\ pte'[q] = pte[q]
    BY <1>0, <1>15 DEF Start, Goto, Tables
  <2>2. CallAt(p)'
    BY <1>0, <2>1, IdleType DEF CallInv, CallAt
  <2>3. QED
    BY <1>1, <2>1, <2>2
<1>16. ASSUME NEW p \in Procs, NEW v \in Pages, FreePage(p, v) PROVE CallInv'
  <2>1. /\ pc[p] = "zombie" /\ pc' = pc /\ call' = call
        /\ \A q \in Procs : q # p => pte'[q] = pte[q]
    BY <1>0, <1>16 DEF FreePage, Tables
  <2>2. CallAt(p)'
    BY <1>0, <2>1, IdleType DEF CallInv, CallAt
  <2>3. QED
    BY <1>1, <2>1, <2>2
<1>17. CASE WriteLog \/ Install \/ UNCHANGED vars
  BY <1>0, <1>17, CallRests DEF vars, WriteLog, Install, CallInv
<1>18. QED
  BY <1>2, <1>3, <1>4, <1>5, <1>6, <1>7, <1>8, <1>9, <1>10, <1>11, <1>12, <1>13, <1>14,
     <1>15, <1>16, <1>17, ForkAssumption DEF Next, KernelStep

-----------------------------------------------------------------------------
(* Children *)

\* A step in which only p moves, and p is not under construction.
Alone(p) == \A q \in Procs : q # p => call'[q] = call[q] /\ pc'[q] = pc[q] /\ pte'[q] = pte[q]

LEMMA ChildRests ==
  ASSUME ChildInv, NEW p \in Procs, pc[p] # "embryo", Alone(p),
         \/ call'[p].child = Null
         \/ call'[p].child = call[p].child /\ call'[p].va = call[p].va,
         pc'[p] = "unused" => \A v \in Pages : pte'[p][v] = Unmapped
  PROVE  ChildInv'
<1>1. ASSUME NEW q \in Procs, call'[q].child # Null
      PROVE  call'[q].child = call[q].child /\ call'[q].va = call[q].va
  BY <1>1 DEF Alone
<1>2. ASSUME NEW q \in Procs, NEW r \in Procs, call'[q].child # Null, call'[q].child = call'[r].child
      PROVE  q = r
  BY <1>1, <1>2 DEF ChildInv
<1>3. ASSUME NEW q \in Procs, NEW c \in Procs, call'[q].child = c
      PROVE  pc'[c] = "embryo" /\ \A v \in Pages : v >= call'[q].va => pte'[c][v] = Unmapped
  <2>1. c # Null
    BY NullAssumption
  <2>2. call[q].child = c /\ call'[q].va = call[q].va
    BY <1>1, <1>3, <2>1
  <2>3. pc[c] = "embryo" /\ \A v \in Pages : v >= call[q].va => pte[c][v] = Unmapped
    BY <2>2 DEF ChildInv
  <2>4. pc'[c] = pc[c] /\ pte'[c] = pte[c]
    BY <2>3 DEF Alone
  <2>5. QED
    BY <2>2, <2>3, <2>4
<1>4. ASSUME NEW q \in Procs, pc'[q] = "unused" PROVE \A v \in Pages : pte'[q][v] = Unmapped
  BY <1>4 DEF Alone, ChildInv
<1>5. QED
  BY <1>2, <1>3, <1>4 DEF ChildInv

LEMMA ChildStep ==
  ASSUME OwnInv, [Next]_vars
  PROVE  ChildInv'
<1>0. /\ Typed /\ CallInv /\ ChildInv /\ pte \in Tables /\ call \in [Procs -> CallType]
      /\ DOMAIN pc = Procs
  BY DEF OwnInv, Typed, Tables, CallType
<1>1. ASSUME NEW p \in Procs, NEW v \in Pages, Write(p, v) \/ Fault(p, v) \/ SysSwap(p, v)
      PROVE  ChildInv'
  <2>1. pc[p] = "user" /\ call[p].child = Null /\ pc'[p] # "unused"
    BY <1>0, <1>1, IdleType DEF Write, Fault, SysSwap, Goto, CallInv, CallAt
  <2>2. call'[p].child = Null
    <3>1. CASE Write(p, v)
      BY <2>1, <3>1 DEF Write
    <3>2. CASE Fault(p, v)
      <4>1. call'[p] = [call[p] EXCEPT !.va = v] /\ call[p] \in CallType
        BY <1>0, <3>2 DEF Fault
      <4>2. QED
        BY <2>1, <4>1 DEF CallType
    <3>3. CASE SysSwap(p, v)
      BY <1>0, <3>3 DEF SysSwap, Idle
    <3>4. QED
      BY <1>1, <3>1, <3>2, <3>3
  <2>3. Alone(p)
    BY <1>0, <1>1 DEF Write, Fault, SysSwap, Goto, Alone
  <2>4. QED
    BY <1>0, <2>1, <2>2, <2>3, ChildRests
<1>2. ASSUME NEW p \in Procs,
             Exit(p) \/ Reap(p) \/ NoVictim(p) \/ WritePage(p) \/ Alloc(p) \/ Again(p) \/ SwapOut(p)
      PROVE  ChildInv'
  <2>1. /\ pc[p] # "embryo" /\ Alone(p)
        /\ pc'[p] = "unused" => \A v \in Pages : pte'[p][v] = Unmapped
    <3>1. CASE Exit(p) \/ Reap(p) \/ NoVictim(p) \/ WritePage(p) \/ SwapOut(p)
      BY <1>0, <3>1 DEF Exit, Reap, NoVictim, WritePage, SwapOut, Goto, Alone
    <3>2. CASE Alloc(p) \/ Again(p)
      <4>1. call[p].then \in {"fill", "move"}
        BY <1>0, <3>2 DEF Alloc, Again, CallInv, CallAt
      <4>2. QED
        BY <1>0, <3>2, <4>1 DEF Alloc, Again, TakeFrame, Goto, Alone
    <3>3. QED
      BY <1>2, <3>1, <3>2
  <2>2. call'[p].child = call[p].child /\ call'[p].va = call[p].va
    <3>1. CASE SwapOut(p)
      <4>1. /\ call'[p] = [call[p] EXCEPT !.victim = Victim(p), !.block = FirstFree]
            /\ call[p] \in CallType
        BY <1>0, <3>1 DEF SwapOut
      <4>2. QED
        BY <4>1 DEF CallType
    <3>2. CASE Alloc(p) \/ Again(p)
      <4>1. \/ call' = call
            \/ \E f \in free : call'[p] = [call[p] EXCEPT !.frame = f]
        BY <1>0, <3>2 DEF Alloc, Again, TakeFrame
      <4>2. call[p] \in CallType
        BY <1>0
      <4>3. QED
        BY <4>1, <4>2 DEF CallType
    <3>3. CASE Exit(p) \/ Reap(p) \/ NoVictim(p) \/ WritePage(p)
      BY <3>3 DEF Exit, Reap, NoVictim, WritePage
    <3>4. QED
      BY <1>2, <3>1, <3>2, <3>3
  <2>3. QED
    BY <1>0, <2>1, <2>2, ChildRests
<1>3. ASSUME NEW p \in Procs, Copy(p) PROVE ChildInv'
  <2>1. pc[p] = "copy" /\ pc'[p] = "alloc" /\ Alone(p)
    BY <1>0, <1>3 DEF Copy, Goto, Alone
  <2>2. call'[p].child = call[p].child /\ call'[p].va = call[p].va
    BY <1>0, <1>3 DEF Copy, CallType
  <2>3. QED
    BY <1>0, <2>1, <2>2, ChildRests
<1>4. ASSUME NEW p \in Procs, Evict(p) PROVE ChildInv'
  <2>1. pc[p] = "evict" /\ pc'[p] # "unused" /\ Alone(p)
    BY <1>0, <1>4 DEF Evict, Goto, Alone, Tables
  <2>2. \/ call'[p] = Idle
        \/ call'[p] = [call[p] EXCEPT !.victim = Null, !.block = Null]
    BY <1>0, <1>4 DEF Evict
  <2>3. \/ call'[p].child = Null
        \/ call'[p].child = call[p].child /\ call'[p].va = call[p].va
    BY <1>0, <2>2, IdleType DEF CallType
  <2>4. QED
    BY <1>0, <2>1, <2>3, ChildRests
<1>5. ASSUME NEW p \in Procs, FillSwapped(p) PROVE ChildInv'
  <2>1. pc[p] = "fill" /\ pc'[p] = "bfree" /\ Alone(p)
    BY <1>0, <1>5 DEF FillSwapped, Goto, Alone, Tables
  <2>2. call'[p] = [call[p] EXCEPT !.frame = Null, !.block = pte[p][call[p].va].at]
    BY <1>0, <1>5 DEF FillSwapped
  <2>3. call'[p].child = call[p].child /\ call'[p].va = call[p].va
    BY <1>0, <2>2 DEF CallType
  <2>4. QED
    BY <1>0, <2>1, <2>3, ChildRests
<1>6. ASSUME NEW p \in Procs, Bfree(p) \/ FillZero(p) PROVE ChildInv'
  <2>1. /\ pc[p] \in {"bfree", "fill"} /\ pc'[p] \in {"user", "copy"} /\ Alone(p)
        /\ call'[p] = Keep(p)
    BY <1>0, <1>6 DEF Bfree, FillZero, Goto, Back, Alone, Tables
  <2>2. \/ call'[p].child = Null
        \/ call'[p].child = call[p].child /\ call'[p].va = call[p].va
    BY <2>1 DEF Keep, Idle
  <2>3. QED
    BY <1>0, <2>1, <2>2, ChildRests
<1>7. ASSUME NEW p \in Procs, Start(p) PROVE ChildInv'
  <2>1. pc[p] = "unused" /\ pc'[p] = "user" /\ Alone(p) /\ call' = call
    BY <1>0, <1>7 DEF Start, Goto, Alone, Tables
  <2>2. QED
    BY <1>0, <2>1, ChildRests
<1>8. ASSUME NEW p \in Procs, NEW v \in Pages, FreePage(p, v) PROVE ChildInv'
  <2>1. pc[p] = "zombie" /\ pc'[p] = "zombie" /\ Alone(p) /\ call' = call
    BY <1>0, <1>8 DEF FreePage, Alone, Tables
  <2>2. QED
    BY <1>0, <2>1, ChildRests
<1>9. ASSUME NEW p \in Procs, NEW d \in Procs, Fork(p, d) PROVE ChildInv'
  <2>1. /\ pc[p] = "user" /\ pc[d] = "unused" /\ d # Null /\ p # d
        /\ call'[p].child = d /\ call'[p].va = 0
        /\ \A q \in Procs : q # p => call'[q] = call[q]
        /\ pc'[d] = "embryo" /\ pc'[p] = "copy"
        /\ \A q \in Procs : q # p /\ q # d => pc'[q] = pc[q]
        /\ pte' = pte
    BY <1>0, <1>9, NullAssumption DEF Fork, Idle
  <2>2. \A q \in Procs : call[q].child # d
    BY <1>0, <2>1 DEF ChildInv
  <2>3. \A v \in Pages : pte[d][v] = Unmapped
    BY <1>0, <2>1 DEF ChildInv
  <2>4. ASSUME NEW q \in Procs, NEW r \in Procs, call'[q].child # Null,
               call'[q].child = call'[r].child
        PROVE  q = r
    BY <1>0, <2>1, <2>2, <2>4 DEF ChildInv
  <2>5. ASSUME NEW q \in Procs, NEW c \in Procs, call'[q].child = c
        PROVE  pc'[c] = "embryo" /\ \A v \in Pages : v >= call'[q].va => pte'[c][v] = Unmapped
    <3>1. CASE q = p
      BY <2>1, <2>3, <2>5, <3>1
    <3>2. CASE q # p
      <4>1. pc[c] = "embryo" /\ \A v \in Pages : v >= call[q].va => pte[c][v] = Unmapped
        BY <1>0, <2>1, <2>5, <3>2 DEF ChildInv
      <4>2. QED
        BY <2>1, <3>2, <4>1
    <3>3. QED
      BY <3>1, <3>2
  <2>6. ASSUME NEW q \in Procs, pc'[q] = "unused" PROVE \A v \in Pages : pte'[q][v] = Unmapped
    BY <1>0, <2>1, <2>6 DEF ChildInv
  <2>7. QED
    BY <2>4, <2>5, <2>6 DEF ChildInv
<1>10. ASSUME NEW p \in Procs, Move(p) PROVE ChildInv'
  <2>1. PICK d \in Procs : d = call[p].child
    BY <1>0, <1>10 DEF Move, CallInv, CallAt, CallType
  <2>2. PICK v \in Pages : v = call[p].va
    BY <1>0 DEF CallType
  <2>3. /\ d # Null /\ pc[d] = "embryo" /\ pc[p] = "move" /\ d # p
        /\ \A w \in Pages : w >= v => pte[d][w] = Unmapped
    BY <1>0, <1>10, <2>1, <2>2, NullAssumption DEF Move, ChildInv
  <2>4. /\ \A q \in Procs : q # p => call'[q] = call[q]
        /\ \A q \in Procs : q # p /\ q # d => pc'[q] = pc[q]
        /\ \A q \in Procs : q # d => pte'[q] = pte[q]
        /\ \A w \in Pages : w # v => pte'[d][w] = pte[d][w]
        /\ pc'[p] \in {"user", "copy"}
        /\ \/ call'[p] = Idle /\ pc'[d] = "user"
           \/ call'[p] = [Idle EXCEPT !.child = d, !.va = v + 1] /\ pc'[d] = "embryo"
    BY <1>0, <1>10, <2>1, <2>2, <2>3 DEF Move, Tables
  <2>5. \/ call'[p].child = Null /\ pc'[d] = "user"
        \/ call'[p].child = d /\ call'[p].va = v + 1 /\ pc'[d] = "embryo"
    <3>1. CASE call'[p] = Idle /\ pc'[d] = "user"
      BY <3>1, IdleType
    <3>2. CASE call'[p] = [Idle EXCEPT !.child = d, !.va = v + 1] /\ pc'[d] = "embryo"
      BY <3>2 DEF Idle
    <3>3. QED
      BY <2>4, <3>1, <3>2
  <2>6. ASSUME NEW q \in Procs, NEW r \in Procs, call'[q].child # Null,
               call'[q].child = call'[r].child
        PROVE  q = r
    BY <1>0, <2>1, <2>4, <2>5, <2>6 DEF ChildInv
  <2>7. ASSUME NEW q \in Procs, NEW c \in Procs, call'[q].child = c
        PROVE  pc'[c] = "embryo" /\ \A w \in Pages : w >= call'[q].va => pte'[c][w] = Unmapped
    <3>1. CASE q = p
      <4>1. c = d /\ call'[p].va = v + 1 /\ pc'[d] = "embryo"
        BY <2>5, <2>7, <3>1, NullAssumption
      <4>2. ASSUME NEW w \in Pages, w >= v + 1 PROVE pte'[d][w] = Unmapped
        <5>1. w >= v /\ w # v
          BY <4>2, SizeAssumption DEF Pages
        <5>2. QED
          BY <2>3, <2>4, <5>1
      <4>3. QED
        BY <3>1, <4>1, <4>2
    <3>2. CASE q # p
      <4>1. call[q].child = c /\ call'[q].va = call[q].va
        BY <2>4, <2>7, <3>2
      <4>2. c # d
        BY <1>0, <2>1, <2>3, <3>2, <4>1 DEF ChildInv
      <4>3. pc[c] = "embryo" /\ \A w \in Pages : w >= call[q].va => pte[c][w] = Unmapped
        BY <1>0, <4>1 DEF ChildInv
      <4>4. QED
        BY <2>3, <2>4, <4>1, <4>2, <4>3
    <3>3. QED
      BY <3>1, <3>2
  <2>8. ASSUME NEW q \in Procs, pc'[q] = "unused" PROVE \A w \in Pages : pte'[q][w] = Unmapped
    BY <1>0, <2>3, <2>4, <2>5, <2>8 DEF ChildInv
  <2>9. QED
    BY <2>6, <2>7, <2>8 DEF ChildInv
<1>11. CASE WriteLog \/ Install \/ UNCHANGED vars
  BY <1>0, <1>11 DEF vars, WriteLog, Install, ChildInv
<1>12. QED
  BY <1>1, <1>2, <1>3, <1>4, <1>5, <1>6, <1>7, <1>8, <1>9, <1>10, <1>11, ForkAssumption
  DEF Next, KernelStep
-----------------------------------------------------------------------------
(* Frames *)

LEMMA FrameRests ==
  ASSUME FrameInv, Typed, free' \subseteq free,
         \A q \in Procs, v \in Pages : HasFrame(q, v)' => HasFrame(q, v) /\ At(q, v)' = At(q, v),
         \A q \in Procs : call'[q].frame \in {Null, call[q].frame}
  PROVE  FrameInv'
<1>0. Null \notin free /\ \A q \in Procs, v \in Pages : At(q, v) \in Frames => At(q, v) # Null
  BY NullAssumption DEF Typed
<1>1. ASSUME NEW q \in Procs, NEW v \in Pages, HasFrame(q, v)'
      PROVE  HasFrame(q, v) /\ At(q, v)' = At(q, v) /\ At(q, v) # Null
  <2>1. HasFrame(q, v) /\ At(q, v)' = At(q, v)
    BY <1>1
  <2>2. pte[q][v] \in Entries
    BY DEF Typed
  <2>3. QED
    BY <1>0, <2>1, <2>2, EntryKinds DEF HasFrame, At
<1>2. ASSUME NEW q \in Procs, NEW v \in Pages, HasFrame(q, v)' PROVE At(q, v)' \notin free'
  BY <1>1, <1>2 DEF FrameInv
<1>3. ASSUME NEW q \in Procs, NEW r \in Procs, NEW v \in Pages, NEW w \in Pages,
             HasFrame(q, v)', HasFrame(r, w)', At(q, v)' = At(r, w)'
      PROVE  q = r /\ v = w
  BY <1>1, <1>3 DEF FrameInv
<1>4. \A q \in Procs : call'[q].frame \notin free'
  BY <1>0 DEF FrameInv
<1>5. ASSUME NEW q \in Procs, NEW r \in Procs, call'[q].frame # Null, call'[q].frame = call'[r].frame
      PROVE  q = r
  BY <1>5 DEF FrameInv
<1>6. ASSUME NEW q \in Procs, NEW r \in Procs, NEW v \in Pages, HasFrame(r, v)'
      PROVE  At(r, v)' # call'[q].frame
  BY <1>1, <1>6 DEF FrameInv
<1>7. QED
  BY <1>2, <1>3, <1>4, <1>5, <1>6 DEF FrameInv

\* kalloc: a frame goes from the free list into the hands of a call.
LEMMA FrameTaken ==
  ASSUME FrameInv, Typed, NEW p \in Procs, NEW f \in free,
         free' = free \ {f}, call'[p].frame = f, pte' = pte,
         \A q \in Procs : q # p => call'[q].frame = call[q].frame
  PROVE  FrameInv'
<1>1. \A q \in Procs : call[q].frame # f
  BY DEF FrameInv
<1>2. \A q \in Procs, v \in Pages : HasFrame(q, v) => At(q, v) # f
  BY DEF FrameInv
<1>3. \A q \in Procs, v \in Pages : (HasFrame(q, v)' <=> HasFrame(q, v)) /\ At(q, v)' = At(q, v)
  BY DEF HasFrame, At
<1>4. \A q \in Procs : call'[q].frame \notin free'
  BY DEF FrameInv
<1>5. ASSUME NEW q \in Procs, NEW r \in Procs, call'[q].frame # Null, call'[q].frame = call'[r].frame
      PROVE  q = r
  BY <1>1, <1>5 DEF FrameInv
<1>6. ASSUME NEW q \in Procs, NEW r \in Procs, NEW v \in Pages, HasFrame(r, v)'
      PROVE  At(r, v)' # call'[q].frame
  BY <1>2, <1>3, <1>6 DEF FrameInv
<1>7. ASSUME NEW q \in Procs, NEW v \in Pages, HasFrame(q, v)' PROVE At(q, v)' \notin free'
  BY <1>3, <1>7 DEF FrameInv
<1>8. ASSUME NEW q \in Procs, NEW r \in Procs, NEW v \in Pages, NEW w \in Pages,
             HasFrame(q, v)', HasFrame(r, w)', At(q, v)' = At(r, w)'
      PROVE  q = r /\ v = w
  BY <1>3, <1>8 DEF FrameInv
<1>9. QED
  BY <1>4, <1>5, <1>6, <1>7, <1>8 DEF FrameInv

\* kfree: a frame goes from a page to the free list.
LEMMA FrameFreed ==
  ASSUME FrameInv, Typed, NEW p \in Procs, NEW v \in Pages, HasFrame(p, v),
         free' = free \cup {At(p, v)}, ~HasFrame(p, v)',
         \A q \in Procs, w \in Pages : q # p \/ w # v => pte'[q][w] = pte[q][w],
         \A q \in Procs : call'[q].frame \in {Null, call[q].frame}
  PROVE  FrameInv'
<1>0. At(p, v) # Null /\ Null \notin free'
  <2>1. pte[p][v] \in Entries
    BY DEF Typed
  <2>2. At(p, v) \in Frames
    BY <2>1, EntryKinds DEF HasFrame, At
  <2>3. QED
    BY <2>2, NullAssumption DEF Typed
<1>1. ASSUME NEW q \in Procs, NEW w \in Pages, HasFrame(q, w)'
      PROVE  HasFrame(q, w) /\ At(q, w)' = At(q, w) /\ At(q, w) # At(p, v) /\ At(q, w) # Null
  <2>1. q # p \/ w # v
    BY <1>1
  <2>2. pte'[q][w] = pte[q][w] /\ pte[q][w] \in Entries
    BY <2>1 DEF Typed
  <2>3. HasFrame(q, w) /\ At(q, w)' = At(q, w)
    BY <1>1, <2>2 DEF HasFrame, At
  <2>4. At(q, w) \in Frames
    BY <2>2, <2>3, EntryKinds DEF HasFrame, At
  <2>5. QED
    BY <2>1, <2>3, <2>4, NullAssumption DEF FrameInv
<1>2. ASSUME NEW q \in Procs, NEW w \in Pages, HasFrame(q, w)' PROVE At(q, w)' \notin free'
  BY <1>1, <1>2 DEF FrameInv
<1>3. ASSUME NEW q \in Procs, NEW r \in Procs, NEW x \in Pages, NEW w \in Pages,
             HasFrame(q, x)', HasFrame(r, w)', At(q, x)' = At(r, w)'
      PROVE  q = r /\ x = w
  BY <1>1, <1>3 DEF FrameInv
<1>4. \A q \in Procs : call'[q].frame \notin free'
  BY <1>0 DEF FrameInv
<1>5. ASSUME NEW q \in Procs, NEW r \in Procs, call'[q].frame # Null, call'[q].frame = call'[r].frame
      PROVE  q = r
  BY <1>5 DEF FrameInv
<1>6. ASSUME NEW q \in Procs, NEW r \in Procs, NEW w \in Pages, HasFrame(r, w)'
      PROVE  At(r, w)' # call'[q].frame
  BY <1>1, <1>6 DEF FrameInv
<1>7. QED
  BY <1>2, <1>3, <1>4, <1>5, <1>6 DEF FrameInv

\* mappages: a frame goes from the hands of a call to a page.
LEMMA FrameMapped ==
  ASSUME FrameInv, Typed, NEW p \in Procs, NEW c \in Procs, NEW v \in Pages,
         NEW f \in Frames, f = call[p].frame, pte'[c][v].at = f,
         \A q \in Procs, w \in Pages : q # c \/ w # v => pte'[q][w] = pte[q][w],
         free' = free, call'[p].frame = Null,
         \A q \in Procs : q # p => call'[q].frame = call[q].frame
  PROVE  FrameInv'
<1>0. f # Null /\ f \notin free /\ Null \notin free
  BY NullAssumption DEF FrameInv, Typed
<1>1. ASSUME NEW q \in Procs, NEW w \in Pages, HasFrame(q, w)'
      PROVE  \/ q = c /\ w = v /\ At(q, w)' = f
             \/ /\ q # c \/ w # v
                /\ HasFrame(q, w) /\ At(q, w)' = At(q, w) /\ At(q, w) # f /\ At(q, w) # Null
  <2>1. CASE q = c /\ w = v
    BY <2>1 DEF At
  <2>2. CASE q # c \/ w # v
    <3>1. pte'[q][w] = pte[q][w] /\ pte[q][w] \in Entries
      BY <2>2 DEF Typed
    <3>2. HasFrame(q, w) /\ At(q, w)' = At(q, w)
      BY <1>1, <3>1 DEF HasFrame, At
    <3>3. At(q, w) \in Frames
      BY <3>1, <3>2, EntryKinds DEF HasFrame, At
    <3>4. QED
      BY <2>2, <3>2, <3>3, NullAssumption DEF FrameInv
  <2>3. QED
    BY <2>1, <2>2
<1>2. ASSUME NEW q \in Procs, NEW w \in Pages, HasFrame(q, w)' PROVE At(q, w)' \notin free'
  BY <1>0, <1>1, <1>2 DEF FrameInv
<1>3. ASSUME NEW q \in Procs, NEW r \in Procs, NEW x \in Pages, NEW w \in Pages,
             HasFrame(q, x)', HasFrame(r, w)', At(q, x)' = At(r, w)'
      PROVE  q = r /\ x = w
  <2>1. \/ q = c /\ x = v /\ r = c /\ w = v
        \/ HasFrame(q, x) /\ HasFrame(r, w) /\ At(q, x) = At(r, w)
    BY <1>1, <1>3
  <2>2. QED
    BY <2>1 DEF FrameInv
<1>4. \A q \in Procs : call'[q].frame \notin free'
  BY <1>0 DEF FrameInv
<1>5. ASSUME NEW q \in Procs, NEW r \in Procs, call'[q].frame # Null, call'[q].frame = call'[r].frame
      PROVE  q = r
  BY <1>5 DEF FrameInv
<1>6. ASSUME NEW q \in Procs, NEW r \in Procs, NEW w \in Pages, HasFrame(r, w)'
      PROVE  At(r, w)' # call'[q].frame
  <2>1. call'[q].frame # f
    BY <1>0 DEF FrameInv
  <2>2. CASE At(r, w)' = f
    BY <2>1, <2>2
  <2>3. CASE HasFrame(r, w) /\ At(r, w)' = At(r, w) /\ At(r, w) # Null
    BY <2>3 DEF FrameInv
  <2>4. QED
    BY <1>1, <1>6, <2>2, <2>3
<1>7. QED
  BY <1>2, <1>3, <1>4, <1>5, <1>6 DEF FrameInv

LEMMA FrameStep ==
  ASSUME OwnInv, [Next]_vars
  PROVE  FrameInv'
<1>0. /\ Typed /\ CallInv /\ ChildInv /\ FrameInv /\ pte \in Tables
      /\ call \in [Procs -> CallType] /\ free \subseteq Frames
      /\ \A p \in Procs, v \in Pages : pte[p][v] \in Entries
  BY DEF OwnInv, Typed, Tables, CallType
<1>1. ASSUME free' = free, pte' = pte, \A q \in Procs : call'[q].frame \in {Null, call[q].frame}
      PROVE  FrameInv'
  BY <1>0, <1>1, FrameRests DEF HasFrame, At
<1>2. ASSUME NEW p \in Procs, Exit(p) \/ Reap(p) \/ NoVictim(p) \/ WritePage(p) PROVE FrameInv'
  BY <1>1, <1>2 DEF Exit, Reap, NoVictim, WritePage
<1>3. ASSUME NEW p \in Procs, NEW v \in Pages, Write(p, v) \/ Fault(p, v) \/ SysSwap(p, v)
      PROVE  FrameInv'
  <2>1. \/ call'[p] = call[p]
        \/ call'[p] = [call[p] EXCEPT !.va = v]
        \/ call'[p] = [Idle EXCEPT !.victim = v, !.block = FirstFree, !.then = "return"]
    BY <1>0, <1>3 DEF Write, Fault, SysSwap
  <2>2. call[p] \in CallType
    BY <1>0
  <2>3. call'[p].frame \in {Null, call[p].frame}
    <3>1. CASE call'[p] = [Idle EXCEPT !.victim = v, !.block = FirstFree, !.then = "return"]
      BY <3>1 DEF Idle
    <3>2. QED
      BY <2>1, <2>2, <3>1 DEF CallType
  <2>4. QED
    BY <1>0, <1>1, <1>3, <2>3 DEF Write, Fault, SysSwap
<1>4. ASSUME NEW p \in Procs, Copy(p) \/ SwapOut(p) \/ Bfree(p) PROVE FrameInv'
  <2>1. call[p] \in CallType
    BY <1>0
  <2>2. call'[p].frame \in {Null, call[p].frame}
    <3>1. CASE Copy(p)
      BY <1>0, <2>1, <3>1 DEF Copy, CallType
    <3>2. CASE SwapOut(p)
      <4>1. call'[p] = [call[p] EXCEPT !.victim = Victim(p), !.block = FirstFree]
        BY <1>0, <3>2 DEF SwapOut
      <4>2. QED
        BY <2>1, <4>1 DEF CallType
    <3>3. CASE Bfree(p)
      BY <1>0, <3>3 DEF Bfree, Keep, Idle
    <3>4. QED
      BY <1>4, <3>1, <3>2, <3>3
  <2>3. QED
    BY <1>0, <1>1, <1>4, <2>2 DEF Copy, SwapOut, Bfree
<1>5. ASSUME NEW p \in Procs, NEW c \in Procs, Fork(p, c) PROVE FrameInv'
  <2>1. call'[p].frame = Null
    BY <1>0, <1>5 DEF Fork, Idle
  <2>2. QED
    BY <1>0, <1>1, <1>5, <2>1 DEF Fork
<1>6. ASSUME NEW p \in Procs, Alloc(p) \/ Again(p) PROVE FrameInv'
  <2>1. CASE free # {}
    <3>1. PICK f \in free : call' = [call EXCEPT ![p].frame = f] /\ free' = free \ {f}
      BY <1>6, <2>1 DEF Alloc, Again, TakeFrame, Unlink
    <3>2. /\ call'[p].frame = f /\ pte' = pte
          /\ \A q \in Procs : q # p => call'[q].frame = call[q].frame
      BY <1>0, <1>6, <3>1 DEF Alloc, Again, CallType
    <3>3. QED
      BY <1>0, <3>1, <3>2, FrameTaken
  <2>2. CASE free = {}
    BY <1>1, <1>6, <2>2 DEF Alloc, Again
  <2>3. QED
    BY <2>1, <2>2
<1>7. ASSUME NEW p \in Procs, Evict(p) PROVE FrameInv'
  <2>1. PICK v \in Pages : v = call[p].victim /\ HasFrame(p, v)
    BY <1>0, <1>7 DEF Evict, CallInv, CallAt
  <2>2. PICK b \in Swap : b = call[p].block
    BY <1>0, <1>7 DEF Evict, CallInv, CallAt, CallType
  <2>3. pte' = [pte EXCEPT ![p][v] = Entry("swap", b, FALSE)] /\ free' = free \cup {At(p, v)}
    BY <1>7, <2>1, <2>2 DEF Evict, At
  <2>4. pte'[p][v] = Entry("swap", b, FALSE)
        /\ \A q \in Procs, w \in Pages : q # p \/ w # v => pte'[q][w] = pte[q][w]
    BY <1>0, <2>3 DEF Tables
  <2>5. ~HasFrame(p, v)'
    BY <2>4, EntryKinds DEF HasFrame
  <2>6. \/ call'[p] = Idle
        \/ call'[p] = [call[p] EXCEPT !.victim = Null, !.block = Null]
    BY <1>0, <1>7 DEF Evict
  <2>7. call'[p].frame \in {Null, call[p].frame} /\ \A q \in Procs : q # p => call'[q] = call[q]
    BY <1>0, <1>7, <2>6, IdleType DEF CallType, Evict
  <2>8. QED
    BY <1>0, <2>1, <2>3, <2>4, <2>5, <2>7, FrameFreed
<1>8. ASSUME NEW p \in Procs, FillSwapped(p) \/ FillZero(p) PROVE FrameInv'
  <2>1. PICK v \in Pages : v = call[p].va
    BY <1>0 DEF CallType
  <2>2. PICK f \in Frames : f = call[p].frame
    BY <1>0, <1>8 DEF FillSwapped, FillZero, CallInv, CallAt, CallType
  <2>3. pte' = [pte EXCEPT ![p][v] = Entry("frame", f, TRUE)] /\ free' = free
    BY <1>8, <2>1, <2>2 DEF FillSwapped, FillZero
  <2>4. /\ pte'[p][v].at = f
        /\ \A q \in Procs, w \in Pages : q # p \/ w # v => pte'[q][w] = pte[q][w]
    BY <1>0, <2>3 DEF Tables, Entry
  <2>5. call'[p].frame = Null /\ \A q \in Procs : q # p => call'[q] = call[q]
    <3>1. CASE FillSwapped(p)
      <4>1. call'[p] = [call[p] EXCEPT !.frame = Null, !.block = pte[p][v].at]
        BY <1>0, <2>1, <3>1 DEF FillSwapped
      <4>2. QED
        BY <1>0, <3>1, <4>1 DEF FillSwapped, CallType
    <3>2. CASE FillZero(p)
      BY <1>0, <3>2 DEF FillZero, Keep, Idle
    <3>3. QED
      BY <1>8, <3>1, <3>2
  <2>6. \A q \in Procs : q # p => call'[q].frame = call[q].frame
    BY <2>5
  <2>7. FrameInv /\ Typed /\ free' = free
    BY <1>0, <2>3
  <2>8. QED
    BY <2>2, <2>4, <2>5, <2>6, <2>7, FrameMapped
<1>9. ASSUME NEW p \in Procs, Move(p) PROVE FrameInv'
  <2>1. PICK c \in Procs : c = call[p].child
    BY <1>0, <1>9 DEF Move, CallInv, CallAt, CallType
  <2>2. PICK v \in Pages : v = call[p].va
    BY <1>0 DEF CallType
  <2>3. PICK f \in Frames : f = call[p].frame
    BY <1>0, <1>9 DEF Move, CallInv, CallAt, CallType
  <2>4. pte' = [pte EXCEPT ![c][v] = Entry("frame", f, call[p].src.user)] /\ free' = free
    BY <1>9, <2>1, <2>2, <2>3 DEF Move
  <2>5. /\ pte'[c][v].at = f
        /\ \A q \in Procs, w \in Pages : q # c \/ w # v => pte'[q][w] = pte[q][w]
    BY <1>0, <2>4 DEF Tables, Entry
  <2>6. call'[p].frame = Null /\ \A q \in Procs : q # p => call'[q] = call[q]
    BY <1>0, <1>9 DEF Move, Idle
  <2>7. QED
    BY <1>0, <2>3, <2>4, <2>5, <2>6, FrameMapped
<1>10. ASSUME NEW p \in Procs, NEW v \in Pages, FreePage(p, v) PROVE FrameInv'
  <2>1. /\ pte' = [pte EXCEPT ![p][v] = Unmapped] /\ call' = call
        /\ pte'[p][v] = Unmapped
        /\ \A q \in Procs, w \in Pages : q # p \/ w # v => pte'[q][w] = pte[q][w]
    BY <1>0, <1>10 DEF FreePage, Tables
  <2>2. ~HasFrame(p, v)'
    BY <2>1, EntryKinds DEF HasFrame
  <2>3. CASE InSwap(p, v)
    <3>1. free' = free
      BY <1>10, <2>3 DEF FreePage, InSwap
    <3>2. \A q \in Procs, w \in Pages : HasFrame(q, w)' => HasFrame(q, w) /\ At(q, w)' = At(q, w)
      BY <2>1, <2>2 DEF HasFrame, At
    <3>3. QED
      BY <1>0, <2>1, <3>1, <3>2, FrameRests
  <2>4. CASE ~InSwap(p, v)
    <3>1. HasFrame(p, v) /\ free' = free \cup {At(p, v)}
      BY <1>0, <1>10, <2>4, EntryKinds DEF FreePage, InSwap, HasFrame, At
    <3>2. QED
      BY <1>0, <2>1, <2>2, <3>1, FrameFreed
  <2>5. QED
    BY <2>3, <2>4
<1>11. ASSUME NEW p \in Procs, Start(p) PROVE FrameInv'
  <2>1. PICK at \in Injection(0..TextPages + 1, free) :
          /\ pte' = [pte EXCEPT ![p] = [v \in Pages |->
               IF v \in DOMAIN at THEN Entry("frame", at[v], v # Guard) ELSE Unmapped]]
          /\ free' = free \ Range(at)
    BY <1>11 DEF Start
  <2>2. /\ \A v \in DOMAIN at : at[v] \in free /\ at[v] \in Range(at)
        /\ \A v, w \in DOMAIN at : at[v] = at[w] => v = w
    BY DEF Injection, IsInjective, Range
  <2>3. \A q \in Procs, v \in Pages : q # p => pte'[q][v] = pte[q][v]
    BY <1>0, <2>1 DEF Tables
  <2>4. \A v \in Pages : HasFrame(p, v)' => v \in DOMAIN at /\ At(p, v)' = at[v]
    <3>1. ASSUME NEW v \in Pages, HasFrame(p, v)' PROVE v \in DOMAIN at /\ At(p, v)' = at[v]
      <4>1. pte'[p][v] = IF v \in DOMAIN at THEN Entry("frame", at[v], v # Guard) ELSE Unmapped
        BY <1>0, <2>1 DEF Tables
      <4>2. QED
        BY <3>1, <4>1, EntryKinds DEF HasFrame, At, Entry
    <3>2. QED
      BY <3>1
  <2>5. call' = call /\ \A q \in Procs : call[q].frame \notin free
    BY <1>0, <1>11 DEF Start, FrameInv
  <2>6. ASSUME NEW q \in Procs, NEW v \in Pages, HasFrame(q, v)'
        PROVE  \/ q = p /\ v \in DOMAIN at /\ At(q, v)' = at[v]
               \/ q # p /\ HasFrame(q, v) /\ At(q, v)' = At(q, v) /\ At(q, v) \notin free
    BY <1>0, <2>3, <2>4, <2>6 DEF HasFrame, At, FrameInv
  <2>7. ASSUME NEW q \in Procs, NEW v \in Pages, HasFrame(q, v)' PROVE At(q, v)' \notin free'
    BY <2>1, <2>2, <2>6, <2>7
  <2>8. ASSUME NEW q \in Procs, NEW r \in Procs, NEW v \in Pages, NEW w \in Pages,
               HasFrame(q, v)', HasFrame(r, w)', At(q, v)' = At(r, w)'
        PROVE  q = r /\ v = w
    <3>1. \/ q = p /\ v \in DOMAIN at /\ r = p /\ w \in DOMAIN at /\ at[v] = at[w]
          \/ HasFrame(q, v) /\ HasFrame(r, w) /\ At(q, v) = At(r, w)
      BY <2>2, <2>6, <2>8
    <3>2. QED
      BY <1>0, <2>2, <3>1 DEF FrameInv
  <2>9. ASSUME NEW q \in Procs, NEW r \in Procs, NEW w \in Pages, HasFrame(r, w)'
        PROVE  At(r, w)' # call'[q].frame
    BY <1>0, <2>2, <2>5, <2>6, <2>9 DEF FrameInv
  <2>10. \A q \in Procs : call'[q].frame \notin free'
    BY <2>1, <2>5
  <2>11. \A q, r \in Procs : call'[q].frame # Null /\ call'[q].frame = call'[r].frame => q = r
    BY <1>0, <2>5 DEF FrameInv
  <2>12. QED
    BY <2>7, <2>8, <2>9, <2>10, <2>11 DEF FrameInv
<1>12. CASE WriteLog \/ Install \/ UNCHANGED vars
  BY <1>1, <1>12 DEF vars, WriteLog, Install
<1>13. QED
  BY <1>2, <1>3, <1>4, <1>5, <1>6, <1>7, <1>8, <1>9, <1>10, <1>11, <1>12, ForkAssumption
  DEF Next, KernelStep

-----------------------------------------------------------------------------
(* The swap area *)

\* What a block of the swap area is charged to does not change.
LEMMA SwapRests ==
  ASSUME SwapInv, used' = used,
         \A q \in Procs, v \in Pages : (InSwap(q, v)' <=> InSwap(q, v))
                                        /\ (InSwap(q, v) => At(q, v)' = At(q, v)),
         \A q \in Procs : call'[q].block = call[q].block
  PROVE  SwapInv'
<1>1. \A b \in used : \/ \E q \in Procs, v \in Pages : InSwap(q, v)' /\ At(q, v)' = b
                      \/ \E q \in Procs : call'[q].block = b
  BY DEF SwapInv
<1>2. /\ \A q \in Procs, v \in Pages : InSwap(q, v)' => At(q, v)' \in used'
      /\ \A q \in Procs : call'[q].block # Null => call'[q].block \in used'
  BY DEF SwapInv
<1>3. ASSUME NEW q \in Procs, NEW r \in Procs, NEW v \in Pages, NEW w \in Pages,
             InSwap(q, v)', InSwap(r, w)', At(q, v)' = At(r, w)'
      PROVE  q = r /\ v = w
  BY <1>3 DEF SwapInv
<1>4. /\ \A q, r \in Procs : call'[q].block # Null /\ call'[q].block = call'[r].block => q = r
      /\ \A q, r \in Procs, v \in Pages : InSwap(r, v)' => At(r, v)' # call'[q].block
  BY DEF SwapInv
<1>5. QED
  BY <1>1, <1>2, <1>3, <1>4 DEF SwapInv

\* balloc_page: a free block goes into the hands of a call.
LEMMA SwapTaken ==
  ASSUME SwapInv, Typed, NEW p \in Procs, NEW b \in Swap \ used, used' = used \cup {b},
         pte' = pte, call[p].block = Null, call'[p].block = b,
         \A q \in Procs : q # p => call'[q].block = call[q].block
  PROVE  SwapInv'
<1>0. b # Null
  BY NullAssumption DEF Swap
<1>1. \A q \in Procs, v \in Pages : (InSwap(q, v)' <=> InSwap(q, v)) /\ At(q, v)' = At(q, v)
  BY DEF InSwap, At
<1>2. \A q \in Procs : call[q].block # b
  BY <1>0 DEF SwapInv
<1>3. \A d \in used' : \/ \E q \in Procs, v \in Pages : InSwap(q, v)' /\ At(q, v)' = d
                       \/ \E q \in Procs : call'[q].block = d
  <2>1. ASSUME NEW d \in used
        PROVE  \/ \E q \in Procs, v \in Pages : InSwap(q, v)' /\ At(q, v)' = d
               \/ \E q \in Procs : call'[q].block = d
    <3>1. CASE \E q \in Procs, v \in Pages : InSwap(q, v) /\ At(q, v) = d
      BY <1>1, <3>1
    <3>2. CASE \E q \in Procs : call[q].block = d
      <4>1. PICK q \in Procs : call[q].block = d
        BY <3>2
      <4>2. d \in Swap /\ d # Null
        BY NullAssumption DEF Typed, Swap
      <4>3. QED
        BY <4>1, <4>2
    <3>3. QED
      BY <3>1, <3>2 DEF SwapInv
  <2>2. QED
    BY <2>1
<1>4. /\ \A q \in Procs, v \in Pages : InSwap(q, v)' => At(q, v)' \in used'
      /\ \A q \in Procs : call'[q].block # Null => call'[q].block \in used'
  BY <1>1 DEF SwapInv
<1>5. ASSUME NEW q \in Procs, NEW r \in Procs, NEW v \in Pages, NEW w \in Pages,
             InSwap(q, v)', InSwap(r, w)', At(q, v)' = At(r, w)'
      PROVE  q = r /\ v = w
  BY <1>1, <1>5 DEF SwapInv
<1>6. \A q, r \in Procs : call'[q].block # Null /\ call'[q].block = call'[r].block => q = r
  BY <1>2 DEF SwapInv
<1>7. \A q, r \in Procs, v \in Pages : InSwap(r, v)' => At(r, v)' # call'[q].block
  BY <1>1 DEF SwapInv
<1>8. QED
  BY <1>3, <1>4, <1>5, <1>6, <1>7 DEF SwapInv

LEMMA SwapStep ==
  ASSUME OwnInv, [Next]_vars
  PROVE  SwapInv'
<1>0. /\ Typed /\ CallInv /\ ChildInv /\ SwapInv /\ pte \in Tables
      /\ call \in [Procs -> CallType] /\ used \subseteq Swap
      /\ \A p \in Procs, v \in Pages : pte[p][v] \in Entries
      /\ Null \notin Swap
  BY NullAssumption DEF OwnInv, Typed, Tables, CallType, Swap
<1>1. ASSUME used' = used, pte' = pte, \A q \in Procs : call'[q].block = call[q].block
      PROVE  SwapInv'
  BY <1>0, <1>1, SwapRests DEF InSwap, At
<1>2. ASSUME NEW p \in Procs, Exit(p) \/ Reap(p) \/ NoVictim(p) \/ WritePage(p) PROVE SwapInv'
  BY <1>1, <1>2 DEF Exit, Reap, NoVictim, WritePage, used
<1>3. ASSUME NEW p \in Procs, NEW v \in Pages, Write(p, v) \/ Fault(p, v) PROVE SwapInv'
  <2>1. call'[p].block = call[p].block /\ \A q \in Procs : q # p => call'[q] = call[q]
    BY <1>0, <1>3 DEF Write, Fault, CallType
  <2>2. QED
    BY <1>1, <1>3, <2>1 DEF Write, Fault, used
<1>4. ASSUME NEW p \in Procs, Copy(p) \/ Alloc(p) \/ Again(p) PROVE SwapInv'
  <2>1. \/ call' = call
        \/ \E f \in free : call' = [call EXCEPT ![p] = [call[p] EXCEPT !.frame = f]]
        \/ call' = [call EXCEPT ![p] = [call[p] EXCEPT !.then = "fill"]]
        \/ call' = [call EXCEPT
              ![p] = [call[p] EXCEPT !.then = "move", !.src = pte[p][call[p].va]]]
    BY <1>4 DEF Copy, Alloc, Again, TakeFrame
  <2>2. call[p] \in CallType /\ \A q \in Procs : q # p => call'[q] = call[q]
    BY <1>0, <2>1
  <2>3. call'[p].block = call[p].block
    <3>1. CASE \E f \in free : call' = [call EXCEPT ![p] = [call[p] EXCEPT !.frame = f]]
      BY <1>0, <2>2, <3>1 DEF CallType
    <3>2. CASE call' = [call EXCEPT ![p] = [call[p] EXCEPT !.then = "fill"]]
      BY <1>0, <2>2, <3>2 DEF CallType
    <3>3. CASE call' = [call EXCEPT
                 ![p] = [call[p] EXCEPT !.then = "move", !.src = pte[p][call[p].va]]]
      BY <1>0, <2>2, <3>3 DEF CallType
    <3>4. QED
      BY <2>1, <3>1, <3>2, <3>3
  <2>4. QED
    BY <1>1, <1>4, <2>2, <2>3 DEF Copy, Alloc, Again, used
<1>5. ASSUME NEW p \in Procs, NEW c \in Procs, Fork(p, c) PROVE SwapInv'
  <2>1. call'[p].block = Null /\ call[p].block = Null
    BY <1>0, <1>5 DEF Fork, Idle, CallInv, CallAt
  <2>2. QED
    BY <1>0, <1>1, <1>5, <2>1 DEF Fork, used
<1>6. ASSUME NEW p \in Procs, NEW v \in Pages, SwapOut(p) \/ SysSwap(p, v) PROVE SwapInv'
  <2>1. PICK b \in Swap \ used : b = FirstFree
    BY <1>6, RoomInSwap DEF SwapOut, SysSwap, Balloc
  <2>2. used' = used \cup {b} /\ pte' = pte
    BY <1>0, <1>6, <2>1, SetSwap DEF SwapOut, SysSwap, Balloc
  <2>3. call[p].block = Null
    BY <1>0, <1>6 DEF SwapOut, SysSwap, CallInv, CallAt
  <2>4. call'[p].block = b /\ \A q \in Procs : q # p => call'[q] = call[q]
    <3>1. CASE SwapOut(p)
      <4>1. call' = [call EXCEPT ![p] = [call[p] EXCEPT !.victim = Victim(p), !.block = b]]
        BY <2>1, <3>1 DEF SwapOut
      <4>2. QED
        BY <1>0, <4>1 DEF CallType
    <3>2. CASE SysSwap(p, v)
      <4>1. call' = [call EXCEPT ![p] =
                       [Idle EXCEPT !.victim = v, !.block = b, !.then = "return"]]
        BY <2>1, <3>2 DEF SysSwap
      <4>2. QED
        BY <1>0, <4>1 DEF Idle
    <3>3. QED
      BY <1>6, <3>1, <3>2
  <2>5. QED
    BY <1>0, <2>2, <2>3, <2>4, SwapTaken
<1>7. ASSUME NEW p \in Procs, Evict(p) PROVE SwapInv'
  <2>1. PICK v \in Pages : v = call[p].victim /\ HasFrame(p, v)
    BY <1>0, <1>7 DEF Evict, CallInv, CallAt
  <2>2. PICK b \in Swap : b = call[p].block
    BY <1>0, <1>7 DEF Evict, CallInv, CallAt, CallType
  <2>3. PICK e \in Entries : e = Entry("swap", b, FALSE) /\ e.kind = "swap" /\ e.at = b
    BY EntryKinds
  <2>4. /\ pte'[p][v] = e /\ used' = used
        /\ \A q \in Procs, w \in Pages : q # p \/ w # v => pte'[q][w] = pte[q][w]
    <3>1. pte' = [pte EXCEPT ![p][v] = e] /\ used' = used
      BY <1>7, <2>1, <2>2, <2>3 DEF Evict, used
    <3>2. QED
      BY <1>0, <3>1 DEF Tables
  <2>5. call'[p].block = Null /\ \A q \in Procs : q # p => call'[q] = call[q]
    <3>1. \/ call'[p] = Idle
          \/ call'[p] = [call[p] EXCEPT !.victim = Null, !.block = Null]
      BY <1>0, <1>7 DEF Evict
    <3>2. QED
      BY <1>0, <1>7, <3>1, IdleType DEF Evict, CallType
  <2>6. b # Null /\ b \in used /\ \A q \in Procs : q # p => call[q].block # b
    BY <1>0, <2>2 DEF SwapInv
  <2>7. \A q \in Procs, w \in Pages : InSwap(q, w) => At(q, w) # b
    BY <1>0, <2>2 DEF SwapInv
  <2>8. ASSUME NEW q \in Procs, NEW w \in Pages
        PROVE  \/ q = p /\ w = v /\ InSwap(q, w)' /\ At(q, w)' = b /\ ~InSwap(q, w)
               \/ (q # p \/ w # v) /\ InSwap(q, w)' = InSwap(q, w) /\ At(q, w)' = At(q, w)
    BY <2>1, <2>3, <2>4 DEF InSwap, At, HasFrame
  <2>9. \A q \in Procs, w \in Pages : InSwap(q, w)' => At(q, w)' \in used'
    BY <1>0, <2>4, <2>6, <2>8 DEF SwapInv
  <2>10. ASSUME NEW q \in Procs, NEW r \in Procs, NEW x \in Pages, NEW w \in Pages,
                InSwap(q, x)', InSwap(r, w)', At(q, x)' = At(r, w)'
         PROVE  q = r /\ x = w
    BY <1>0, <2>7, <2>8, <2>10 DEF SwapInv
  <2>11. /\ \A q \in Procs : call'[q].block # Null => call'[q].block \in used'
         /\ \A q, r \in Procs : call'[q].block # Null /\ call'[q].block = call'[r].block => q = r
    BY <1>0, <2>4, <2>5 DEF SwapInv
  <2>12. ASSUME NEW q \in Procs, NEW r \in Procs, NEW w \in Pages, InSwap(r, w)'
         PROVE  At(r, w)' # call'[q].block
    <3>1. CASE q = p
      <4>1. At(r, w)' \in Swap
        BY <1>0, <2>4, <2>9, <2>12
      <4>2. QED
        BY <1>0, <2>5, <3>1, <4>1
    <3>2. CASE q # p
      BY <1>0, <2>5, <2>6, <2>8, <2>12, <3>2 DEF SwapInv
    <3>3. QED
      BY <3>1, <3>2
  <2>13. ASSUME NEW d \in used
         PROVE  \/ \E q \in Procs, w \in Pages : InSwap(q, w)' /\ At(q, w)' = d
                \/ \E q \in Procs : call'[q].block = d
    <3>1. CASE d = b
      BY <2>8, <3>1
    <3>2. CASE \E q \in Procs, w \in Pages : InSwap(q, w) /\ At(q, w) = d
      BY <2>8, <3>2
    <3>3. CASE d # b /\ \E q \in Procs : call[q].block = d
      BY <2>2, <2>5, <3>3
    <3>4. QED
      BY <1>0, <3>1, <3>2, <3>3 DEF SwapInv
  <2>14. QED
    BY <2>4, <2>9, <2>10, <2>11, <2>12, <2>13 DEF SwapInv
<1>8. ASSUME NEW p \in Procs, FillSwapped(p) PROVE SwapInv'
  <2>1. PICK v \in Pages : v = call[p].va
    BY <1>0 DEF CallType
  <2>2. InSwap(p, v)
    BY <1>8, <2>1 DEF FillSwapped, InSwap
  <2>3. PICK b \in Swap : b = At(p, v)
    BY <1>0, <2>2, EntryKinds DEF InSwap, At
  <2>4. call[p].block = Null
    BY <1>0, <1>8 DEF FillSwapped, CallInv, CallAt
  <2>5. /\ ~InSwap(p, v)' /\ used' = used
        /\ \A q \in Procs, w \in Pages : q # p \/ w # v => pte'[q][w] = pte[q][w]
    <3>1. pte' = [pte EXCEPT ![p][v] = Entry("frame", call[p].frame, TRUE)] /\ used' = used
      BY <1>8, <2>1 DEF FillSwapped, used
    <3>2. QED
      BY <1>0, <3>1 DEF Tables, Entry, InSwap
  <2>6. call'[p].block = b /\ \A q \in Procs : q # p => call'[q] = call[q]
    <3>1. call' = [call EXCEPT ![p] = [call[p] EXCEPT !.frame = Null, !.block = b]]
      BY <1>8, <2>1, <2>3 DEF FillSwapped, At
    <3>2. QED
      BY <1>0, <3>1 DEF CallType
  <2>7. b # Null /\ b \in used /\ \A q \in Procs : call[q].block # b
    BY <1>0, <2>2, <2>3 DEF SwapInv
  <2>8. ASSUME NEW q \in Procs, NEW w \in Pages, InSwap(q, w)'
        PROVE  InSwap(q, w) /\ At(q, w)' = At(q, w) /\ At(q, w) # b
    <3>1. q # p \/ w # v
      BY <2>5, <2>8
    <3>2. InSwap(q, w) /\ At(q, w)' = At(q, w)
      BY <2>5, <2>8, <3>1 DEF InSwap, At
    <3>3. QED
      BY <1>0, <2>2, <2>3, <3>1, <3>2 DEF SwapInv
  <2>9. \A q \in Procs, w \in Pages : InSwap(q, w)' => At(q, w)' \in used'
    BY <1>0, <2>5, <2>8 DEF SwapInv
  <2>10. ASSUME NEW q \in Procs, NEW r \in Procs, NEW x \in Pages, NEW w \in Pages,
                InSwap(q, x)', InSwap(r, w)', At(q, x)' = At(r, w)'
         PROVE  q = r /\ x = w
    BY <1>0, <2>8, <2>10 DEF SwapInv
  <2>11. /\ \A q \in Procs : call'[q].block # Null => call'[q].block \in used'
         /\ \A q, r \in Procs : call'[q].block # Null /\ call'[q].block = call'[r].block => q = r
    BY <1>0, <2>5, <2>6, <2>7 DEF SwapInv
  <2>12. ASSUME NEW q \in Procs, NEW r \in Procs, NEW w \in Pages, InSwap(r, w)'
         PROVE  At(r, w)' # call'[q].block
    BY <1>0, <2>6, <2>8, <2>12 DEF SwapInv
  <2>13. ASSUME NEW d \in used
         PROVE  \/ \E q \in Procs, w \in Pages : InSwap(q, w)' /\ At(q, w)' = d
                \/ \E q \in Procs : call'[q].block = d
    <3>1. CASE d = b
      BY <2>6, <3>1
    <3>2. CASE d # b /\ \E q \in Procs, w \in Pages : InSwap(q, w) /\ At(q, w) = d
      <4>1. PICK q \in Procs, w \in Pages : InSwap(q, w) /\ At(q, w) = d
        BY <3>2
      <4>2. pte'[q][w] = pte[q][w]
        BY <2>3, <2>5, <3>2, <4>1
      <4>3. QED
        BY <4>1, <4>2 DEF InSwap, At
    <3>3. CASE \E q \in Procs : call[q].block = d
      <4>1. PICK q \in Procs : call[q].block = d
        BY <3>3
      <4>2. d # Null /\ q # p
        BY <1>0, <2>4, <4>1
      <4>3. QED
        BY <2>6, <4>1, <4>2
    <3>4. QED
      BY <1>0, <3>1, <3>2, <3>3 DEF SwapInv
  <2>14. QED
    BY <2>5, <2>9, <2>10, <2>11, <2>12, <2>13 DEF SwapInv
<1>9. ASSUME NEW p \in Procs, Bfree(p) PROVE SwapInv'
  <2>1. PICK b \in Swap : b = call[p].block
    BY <1>0, <1>9 DEF Bfree, CallInv, CallAt, CallType
  <2>2. used' = used \ {b} /\ pte' = pte
    BY <1>0, <1>9, <2>1, DropSwap DEF Bfree, Release
  <2>3. call'[p].block = Null /\ \A q \in Procs : q # p => call'[q] = call[q]
    BY <1>0, <1>9 DEF Bfree, Keep, Idle
  <2>4. /\ b # Null /\ \A q \in Procs : q # p => call[q].block # b
        /\ \A q \in Procs, w \in Pages : InSwap(q, w) => At(q, w) # b
    BY <1>0, <2>1 DEF SwapInv
  <2>5. \A q \in Procs, w \in Pages : (InSwap(q, w)' <=> InSwap(q, w)) /\ At(q, w)' = At(q, w)
    BY <2>2 DEF InSwap, At
  <2>6. /\ \A q \in Procs, w \in Pages : InSwap(q, w)' => At(q, w)' \in used'
        /\ \A q \in Procs : call'[q].block # Null => call'[q].block \in used'
    BY <1>0, <2>2, <2>3, <2>4, <2>5 DEF SwapInv
  <2>7. ASSUME NEW q \in Procs, NEW r \in Procs, NEW x \in Pages, NEW w \in Pages,
               InSwap(q, x)', InSwap(r, w)', At(q, x)' = At(r, w)'
        PROVE  q = r /\ x = w
    BY <1>0, <2>5, <2>7 DEF SwapInv
  <2>8. \A q, r \in Procs : call'[q].block # Null /\ call'[q].block = call'[r].block => q = r
    BY <1>0, <2>3 DEF SwapInv
  <2>9. ASSUME NEW q \in Procs, NEW r \in Procs, NEW w \in Pages, InSwap(r, w)'
        PROVE  At(r, w)' # call'[q].block
    <3>1. At(r, w)' # Null
      BY <1>0, <2>2, <2>6, <2>9
    <3>2. QED
      BY <1>0, <2>3, <2>5, <2>9, <3>1 DEF SwapInv
  <2>10. ASSUME NEW d \in used'
         PROVE  \/ \E q \in Procs, w \in Pages : InSwap(q, w)' /\ At(q, w)' = d
                \/ \E q \in Procs : call'[q].block = d
    <3>1. d \in used /\ d # b
      BY <2>2
    <3>2. CASE \E q \in Procs, w \in Pages : InSwap(q, w) /\ At(q, w) = d
      BY <2>5, <3>2
    <3>3. CASE \E q \in Procs : call[q].block = d
      BY <2>1, <2>3, <3>1, <3>3
    <3>4. QED
      BY <1>0, <3>1, <3>2, <3>3 DEF SwapInv
  <2>11. QED
    BY <2>6, <2>7, <2>8, <2>9, <2>10 DEF SwapInv
<1>10. ASSUME NEW p \in Procs, FillZero(p) PROVE SwapInv'
  <2>1. PICK v \in Pages : v = call[p].va
    BY <1>0 DEF CallType
  <2>2. ~InSwap(p, v) /\ call[p].block = Null
    BY <1>0, <1>10, <2>1 DEF FillZero, InSwap, CallInv, CallAt
  <2>3. pte' = [pte EXCEPT ![p][v] = Entry("frame", call[p].frame, TRUE)] /\ used' = used
    BY <1>10, <2>1 DEF FillZero, used
  <2>4. /\ ~InSwap(p, v)'
        /\ \A q \in Procs, w \in Pages : q # p \/ w # v => pte'[q][w] = pte[q][w]
    BY <1>0, <2>3 DEF Tables, Entry, InSwap
  <2>5. \A q \in Procs, w \in Pages : (InSwap(q, w)' <=> InSwap(q, w))
                                       /\ (InSwap(q, w) => At(q, w)' = At(q, w))
    BY <2>2, <2>4 DEF InSwap, At
  <2>6. \A q \in Procs : call'[q].block = call[q].block
    BY <1>0, <1>10, <2>2 DEF FillZero, Keep, Idle
  <2>7. QED
    BY <1>0, <2>3, <2>5, <2>6, SwapRests
<1>11. ASSUME NEW p \in Procs, Move(p) PROVE SwapInv'
  <2>1. PICK c \in Procs : c = call[p].child
    BY <1>0, <1>11 DEF Move, CallInv, CallAt, CallType
  <2>2. PICK v \in Pages : v = call[p].va
    BY <1>0 DEF CallType
  <2>3. ~InSwap(c, v) /\ call[p].block = Null
    <3>1. pte[c][v] = Unmapped
      <4>1. v >= call[p].va
        BY <2>2, SizeAssumption DEF Pages
      <4>2. QED
        BY <1>0, <2>1, <4>1 DEF ChildInv
    <3>2. QED
      BY <1>0, <1>11, <3>1, EntryKinds DEF Move, InSwap, CallInv, CallAt
  <2>4. pte' = [pte EXCEPT ![c][v] = Entry("frame", call[p].frame, call[p].src.user)]
        /\ used' = used
    BY <1>11, <2>1, <2>2 DEF Move, used
  <2>5. /\ ~InSwap(c, v)'
        /\ \A q \in Procs, w \in Pages : q # c \/ w # v => pte'[q][w] = pte[q][w]
    BY <1>0, <2>4 DEF Tables, Entry, InSwap
  <2>6. \A q \in Procs, w \in Pages : (InSwap(q, w)' <=> InSwap(q, w))
                                       /\ (InSwap(q, w) => At(q, w)' = At(q, w))
    BY <2>3, <2>5 DEF InSwap, At
  <2>7. \A q \in Procs : call'[q].block = call[q].block
    BY <1>0, <1>11, <2>3 DEF Move, Idle
  <2>8. QED
    BY <1>0, <2>4, <2>6, <2>7, SwapRests
<1>12. ASSUME NEW p \in Procs, NEW v \in Pages, FreePage(p, v) PROVE SwapInv'
  <2>1. /\ call' = call /\ ~InSwap(p, v)'
        /\ \A q \in Procs, w \in Pages : q # p \/ w # v => pte'[q][w] = pte[q][w]
    <3>1. pte' = [pte EXCEPT ![p][v] = Unmapped] /\ call' = call
      BY <1>12 DEF FreePage
    <3>2. QED
      BY <1>0, <3>1, EntryKinds DEF Tables, InSwap
  <2>2. CASE ~InSwap(p, v)
    <3>1. used' = used
      BY <1>12, <2>2 DEF FreePage, InSwap, used
    <3>2. \A q \in Procs, w \in Pages : (InSwap(q, w)' <=> InSwap(q, w))
                                         /\ (InSwap(q, w) => At(q, w)' = At(q, w))
      BY <2>1, <2>2 DEF InSwap, At
    <3>3. QED
      BY <1>0, <2>1, <3>1, <3>2, SwapRests
  <2>3. CASE InSwap(p, v)
    <3>1. PICK b \in Swap : b = At(p, v)
      BY <1>0, <2>3, EntryKinds DEF InSwap, At
    <3>2. used' = used \ {b}
      BY <1>0, <1>12, <2>3, <3>1, DropSwap DEF FreePage, Release, InSwap, At
    <3>3. ASSUME NEW q \in Procs, NEW w \in Pages, InSwap(q, w)'
          PROVE  InSwap(q, w) /\ At(q, w)' = At(q, w) /\ At(q, w) # b
      <4>1. q # p \/ w # v
        BY <2>1, <3>3
      <4>2. InSwap(q, w) /\ At(q, w)' = At(q, w)
        BY <2>1, <3>3, <4>1 DEF InSwap, At
      <4>3. QED
        BY <1>0, <2>3, <3>1, <4>1, <4>2 DEF SwapInv
    <3>4. \A q \in Procs : call[q].block # b
      BY <1>0, <2>3, <3>1 DEF SwapInv
    <3>5. /\ \A q \in Procs, w \in Pages : InSwap(q, w)' => At(q, w)' \in used'
          /\ \A q \in Procs : call'[q].block # Null => call'[q].block \in used'
      BY <1>0, <2>1, <3>2, <3>3, <3>4 DEF SwapInv
    <3>6. ASSUME NEW q \in Procs, NEW r \in Procs, NEW x \in Pages, NEW w \in Pages,
                 InSwap(q, x)', InSwap(r, w)', At(q, x)' = At(r, w)'
          PROVE  q = r /\ x = w
      BY <1>0, <3>3, <3>6 DEF SwapInv
    <3>7. /\ \A q, r \in Procs : call'[q].block # Null /\ call'[q].block = call'[r].block => q = r
          /\ \A q, r \in Procs, w \in Pages : InSwap(r, w)' => At(r, w)' # call'[q].block
      BY <1>0, <2>1, <3>3 DEF SwapInv
    <3>8. ASSUME NEW d \in used'
          PROVE  \/ \E q \in Procs, w \in Pages : InSwap(q, w)' /\ At(q, w)' = d
                 \/ \E q \in Procs : call'[q].block = d
      <4>1. d \in used /\ d # b
        BY <3>2
      <4>2. CASE \E q \in Procs, w \in Pages : InSwap(q, w) /\ At(q, w) = d
        <5>1. PICK q \in Procs, w \in Pages : InSwap(q, w) /\ At(q, w) = d
          BY <4>2
        <5>2. pte'[q][w] = pte[q][w]
          BY <2>1, <3>1, <4>1, <5>1
        <5>3. QED
          BY <5>1, <5>2 DEF InSwap, At
      <4>3. CASE \E q \in Procs : call[q].block = d
        BY <2>1, <4>3
      <4>4. QED
        BY <1>0, <4>1, <4>2, <4>3 DEF SwapInv
    <3>9. QED
      BY <3>5, <3>6, <3>7, <3>8 DEF SwapInv
  <2>4. QED
    BY <2>2, <2>3
<1>13. ASSUME NEW p \in Procs, Start(p) PROVE SwapInv'
  <2>1. PICK at \in Injection(0..TextPages + 1, free) :
          pte' = [pte EXCEPT ![p] = [v \in Pages |->
               IF v \in DOMAIN at THEN Entry("frame", at[v], v # Guard) ELSE Unmapped]]
    BY <1>13 DEF Start
  <2>2. \A q \in Procs : q # p => pte'[q] = pte[q]
    BY <1>0, <2>1 DEF Tables
  <2>3. \A v \in Pages : ~InSwap(p, v)' /\ ~InSwap(p, v)
    <3>1. ASSUME NEW v \in Pages PROVE ~InSwap(p, v)' /\ ~InSwap(p, v)
      <4>1. pte'[p][v] = IF v \in DOMAIN at THEN Entry("frame", at[v], v # Guard) ELSE Unmapped
        BY <1>0, <2>1 DEF Tables
      <4>2. pte[p][v] = Unmapped
        BY <1>0, <1>13 DEF Start, ChildInv
      <4>3. QED
        BY <4>1, <4>2, EntryKinds DEF InSwap, Entry
    <3>2. QED
      BY <3>1
  <2>4. \A q \in Procs, w \in Pages : (InSwap(q, w)' <=> InSwap(q, w))
                                       /\ (InSwap(q, w) => At(q, w)' = At(q, w))
    BY <2>2, <2>3 DEF InSwap, At
  <2>5. used' = used /\ call' = call
    BY <1>13 DEF Start, used
  <2>6. QED
    BY <1>0, <2>4, <2>5, SwapRests
<1>14. CASE WriteLog \/ Install \/ UNCHANGED vars
  BY <1>1, <1>14 DEF vars, WriteLog, Install, Installed, used
<1>15. QED
  BY <1>2, <1>3, <1>4, <1>5, <1>6, <1>7, <1>8, <1>9, <1>10, <1>11, <1>12, <1>13, <1>14,
     ForkAssumption, IdleType DEF Next, KernelStep

-----------------------------------------------------------------------------
(* The log *)

\* bfree_page of a page in use.
LEMMA LogReleased ==
  ASSUME OwnInv, NEW b \in Swap, Release(b)
  PROVE  LogInv'
<1>1. used' = used \ {b}
  BY DropSwap DEF Release, OwnInv
<1>2. QED
  BY <1>1 DEF Release, OwnInv, LogInv, LogTyped

LEMMA LogTaken ==
  ASSUME OwnInv, Balloc
  PROVE  LogInv'
<1>1. FirstFree \in Swap \ used /\ FirstFree \notin lost
  BY RoomInSwap DEF Balloc
<1>2. used' = used \cup {FirstFree}
  BY <1>1, SetSwap DEF Balloc, OwnInv
<1>3. QED
  BY <1>1, <1>2 DEF Balloc, OwnInv, LogInv, LogTyped

LEMMA LogStep ==
  ASSUME OwnInv, [Next]_vars
  PROVE  LogInv'
<1>0. LogInv /\ Typed /\ CallInv /\ call \in [Procs -> CallType]
      /\ \A p \in Procs, v \in Pages : pte[p][v] \in Entries
  BY DEF OwnInv, Typed, CallType
<1>1. ASSUME log' = log, swap' = swap PROVE LogInv'
  BY <1>0, <1>1 DEF LogInv, LogTyped, log, used
<1>2. ASSUME NEW p \in Procs, Start(p) \/ Exit(p) \/ Reap(p) \/ Alloc(p) \/ NoVictim(p) \/ Evict(p)
                               \/ Again(p) \/ FillSwapped(p) \/ FillZero(p) \/ Copy(p) \/ Move(p)
      PROVE  LogInv'
  BY <1>1, <1>2 DEF Start, Exit, Reap, Alloc, NoVictim, Evict, Again, FillSwapped, FillZero, Copy, Move
<1>3. ASSUME NEW p \in Procs, NEW v \in Pages, Write(p, v) \/ Fault(p, v) PROVE LogInv'
  BY <1>1, <1>3 DEF Write, Fault
<1>4. ASSUME NEW p \in Procs, NEW c \in Procs, Fork(p, c) PROVE LogInv'
  BY <1>1, <1>4 DEF Fork
<1>5. ASSUME NEW p \in Procs, NEW v \in Pages, SwapOut(p) \/ SysSwap(p, v) PROVE LogInv'
  BY <1>5, LogTaken DEF SwapOut, SysSwap
<1>6. ASSUME NEW p \in Procs, WritePage(p) PROVE LogInv'
  BY <1>0, <1>6 DEF WritePage, LogInv, LogTyped, used
<1>7. ASSUME NEW p \in Procs, Bfree(p) PROVE LogInv'
  <2>1. call[p].block \in Swap
    BY <1>0, <1>7 DEF Bfree, CallInv, CallAt, CallType
  <2>2. QED
    BY <1>7, <2>1, LogReleased DEF Bfree
<1>8. ASSUME NEW p \in Procs, NEW v \in Pages, FreePage(p, v) PROVE LogInv'
  <2>1. CASE pte[p][v].kind = "swap"
    <3>1. pte[p][v].at \in Swap
      BY <1>0, <2>1, EntryKinds
    <3>2. QED
      BY <1>8, <2>1, <3>1, LogReleased DEF FreePage
  <2>2. CASE pte[p][v].kind # "swap"
    BY <1>1, <1>8, <2>2 DEF FreePage
  <2>3. QED
    BY <2>1, <2>2
<1>9. CASE WriteLog
  BY <1>0, <1>9 DEF WriteLog, LogInv, LogTyped, used
<1>10. CASE Install
  BY <1>0, <1>10 DEF Install, Installed, LogInv, LogTyped, used
<1>11. CASE UNCHANGED vars
  BY <1>1, <1>11 DEF vars
<1>12. QED
  BY <1>2, <1>3, <1>4, <1>5, <1>6, <1>7, <1>8, <1>9, <1>10, <1>11, ForkAssumption, IdleType
  DEF Next, KernelStep

-----------------------------------------------------------------------------
(* Nothing has two owners, and no page of the swap area is lost but by a commit *)

LEMMA OwnInit == Init => OwnInv
<1>1. SUFFICES ASSUME Init PROVE OwnInv
  OBVIOUS
<1>2. Typed
  <2>1. used = {} /\ swap \in [used -> Content]
    BY <1>1 DEF Init, used
  <2>2. ram \in [Frames -> Content]
    BY <1>1 DEF Init, Content
  <2>3. pte \in [Procs -> [Pages -> Entries]]
    BY <1>1, EntryKinds DEF Init
  <2>4. call \in [Procs -> CallType]
    BY <1>1, IdleType DEF Init
  <2>5. QED
    BY <1>1, <2>1, <2>2, <2>3, <2>4 DEF Init, Typed, CallType
<1>3. /\ \A p \in Procs : call[p] = Idle /\ pc[p] = "unused"
      /\ \A p \in Procs, v \in Pages : pte[p][v] = Unmapped
      /\ used = {}
  BY <1>1 DEF Init, used
<1>4. CallInv
  BY <1>3, IdleType DEF CallInv, CallAt
<1>5. ChildInv
  BY <1>3, IdleType, NullAssumption DEF ChildInv
<1>6. \A p \in Procs, v \in Pages : ~HasFrame(p, v) /\ ~InSwap(p, v)
  BY <1>3, EntryKinds DEF HasFrame, InSwap
<1>7. FrameInv
  BY <1>1, <1>3, <1>6, IdleType, NullAssumption DEF Init, FrameInv
<1>8. SwapInv
  BY <1>3, <1>6, IdleType DEF SwapInv
<1>9. LogInv
  BY <1>1 DEF Init, LogInv, LogTyped
<1>10. QED
  BY <1>2, <1>4, <1>5, <1>7, <1>8, <1>9 DEF OwnInv

LEMMA OwnStep ==
  ASSUME OwnInv, [Next]_vars
  PROVE  OwnInv'
BY TypeStep, LogStep, CallStep, ChildStep, FrameStep, SwapStep DEF OwnInv

\* The invariant about owners holds in every reachable state.
THEOREM Inductive == Spec => []OwnInv
BY OwnInit, OwnStep, PTL DEF Spec

\* A set of at most one element.
LEMMA AtMostOne ==
  ASSUME NEW T, \A x, y \in T : x = y
  PROVE  Cardinality(T) = (IF T = {} THEN 0 ELSE 1)
<1>1. CASE T = {}
  BY <1>1, FS_EmptySet
<1>2. CASE T # {}
  <2>1. PICK x \in T : T = {x}
    BY <1>2
  <2>2. QED
    BY <2>1, FS_Singleton
<1>3. QED
  BY <1>1, <1>2

LEMMA OwnersConserved == OwnInv => PagesConserved
<1>1. SUFFICES ASSUME OwnInv PROVE PagesConserved
  OBVIOUS
<1>2. Typed /\ LogInv /\ FrameInv /\ SwapInv /\ used \subseteq Swap
  BY <1>1 DEF OwnInv, Typed
<1>3. ASSUME NEW f \in Frames
      PROVE  Cardinality(Mapping("frame", f)) + Cardinality(Holding(f))
               + Cardinality(OnFreelist(f)) <= 1
  <2>0. f # Null
    BY NullAssumption
  <2>1. \A s \in Mapping("frame", f) : /\ s \in Slots /\ HasFrame(s[1], s[2])
                                       /\ At(s[1], s[2]) = f
    BY DEF Mapping, HasFrame, At
  <2>2. Cardinality(Mapping("frame", f)) = (IF Mapping("frame", f) = {} THEN 0 ELSE 1)
    <3>1. \A s, t \in Mapping("frame", f) : s = t
      BY <1>2, <2>1 DEF FrameInv, Slots
    <3>2. QED
      BY <3>1, AtMostOne
  <2>3. Cardinality(Holding(f)) = (IF Holding(f) = {} THEN 0 ELSE 1)
    <3>1. \A p, q \in Holding(f) : p = q
      BY <1>2, <2>0 DEF FrameInv, Holding
    <3>2. QED
      BY <3>1, AtMostOne
  <2>4. Cardinality(OnFreelist(f)) = (IF OnFreelist(f) = {} THEN 0 ELSE 1)
    BY AtMostOne DEF OnFreelist
  <2>5. Mapping("frame", f) = {} \/ Holding(f) = {}
    BY <1>2, <2>1 DEF FrameInv, Slots, Holding
  <2>6. Mapping("frame", f) = {} \/ OnFreelist(f) = {}
    BY <1>2, <2>1 DEF FrameInv, Slots, OnFreelist
  <2>7. Holding(f) = {} \/ OnFreelist(f) = {}
    BY <1>2 DEF FrameInv, Holding, OnFreelist
  <2>8. QED
    BY <2>2, <2>3, <2>4, <2>5, <2>6, <2>7
<1>4. ASSUME NEW b \in Swap
      PROVE  Cardinality(Mapping("swap", b)) + Cardinality(InHand(b))
               = (IF b \in used THEN 1 ELSE 0)
  <2>0. b # Null
    BY NullAssumption DEF Swap
  <2>1. \A s \in Mapping("swap", b) : /\ s \in Slots /\ InSwap(s[1], s[2])
                                      /\ At(s[1], s[2]) = b
    BY DEF Mapping, InSwap, At
  <2>2. Cardinality(Mapping("swap", b)) = (IF Mapping("swap", b) = {} THEN 0 ELSE 1)
    <3>1. \A s, t \in Mapping("swap", b) : s = t
      BY <1>2, <2>1 DEF SwapInv, Slots
    <3>2. QED
      BY <3>1, AtMostOne
  <2>3. Cardinality(InHand(b)) = (IF InHand(b) = {} THEN 0 ELSE 1)
    <3>1. \A p, q \in InHand(b) : p = q
      BY <1>2, <2>0 DEF SwapInv, InHand
    <3>2. QED
      BY <3>1, AtMostOne
  <2>4. Mapping("swap", b) = {} \/ InHand(b) = {}
    BY <1>2, <2>1 DEF SwapInv, Slots, InHand
  <2>5. Mapping("swap", b) # {} => b \in used
    BY <1>2, <2>1 DEF SwapInv, Slots
  <2>6. InHand(b) # {} => b \in used
    BY <1>2, <2>0 DEF SwapInv, InHand
  <2>7. b \in used => Mapping("swap", b) # {} \/ InHand(b) # {}
    <3>1. ASSUME NEW p \in Procs, NEW v \in Pages, InSwap(p, v), At(p, v) = b
          PROVE  <<p, v>> \in Mapping("swap", b)
      BY <3>1 DEF Mapping, Slots, InSwap, At
    <3>2. QED
      BY <1>2, <3>1 DEF SwapInv, InHand
  <2>8. QED
    BY <2>2, <2>3, <2>4, <2>5, <2>6, <2>7
<1>5. QED
  BY <1>2, <1>3, <1>4 DEF PagesConserved, FramesOwnedOnce, SwapAccounted, TypeOK, LogInv

\* Faults, evictions, swaps, forks and exits of any number of processes, and the commits
\* they meet, give no frame and no page of the swap area to two owners, and lose no page
\* of the swap area but those whose bits a commit puts back.
THEOREM Safety == Spec => []PagesConserved
BY Inductive, OwnersConserved, PTL

-----------------------------------------------------------------------------
(* A program keeps its memory *)

Mem(p) == IF forked[p] \/ pc[p] \in {"unused", "embryo", "zombie", "wrecked"} THEN Null
          ELSE [v \in Pages |-> Seen(p, v)]

LEMMA MemOf ==
  ASSUME OwnInv, NEW p \in Procs
  PROVE  /\ Runs(p) => Mem(p) = [v \in Pages |-> Seen(p, v)] /\ Mem(p) # Null
         /\ ~Runs(p) => Mem(p) = Null
<1>1. ~Runs(p) => Mem(p) = Null
  BY DEF Runs, Mem
<1>2. Runs(p) => Mem(p) = [v \in Pages |-> Seen(p, v)]
  BY DEF Runs, Mem
<1>3. ASSUME NEW v \in Pages PROVE Seen(p, v) \in Content
  <2>1. pte[p][v] \in Entries
    BY DEF OwnInv, Typed
  <2>2. Accessible(pte[p][v]) => ram[pte[p][v].at] \in Content
    BY <2>1, EntryKinds DEF Accessible, OwnInv, Typed
  <2>3. pte[p][v].kind = "swap" => swap[pte[p][v].at] \in Content
    BY DEF OwnInv, Typed, SwapInv, InSwap, At
  <2>4. QED
    BY <2>2, <2>3 DEF Seen, Content
<1>4. [v \in Pages |-> Seen(p, v)] \in [Pages -> Content]
  BY <1>3
<1>5. QED
  BY <1>1, <1>2, <1>4, NobodyAssumption

\* What a process sees in a page, when neither its entry nor its place is touched.
LEMMA SeenRests ==
  ASSUME NEW q \in Procs, NEW v \in Pages, pte'[q][v] = pte[q][v],
         HasFrame(q, v) => ram'[At(q, v)] = ram[At(q, v)],
         InSwap(q, v) => swap'[At(q, v)] = swap[At(q, v)]
  PROVE  Seen(q, v)' = Seen(q, v)
BY DEF Seen, Accessible, HasFrame, InSwap, At

\* The step touches no place of a process other than p.
Elsewhere(p) ==
  \A q \in Procs \ {p} :
    /\ \A v \in Pages : HasFrame(q, v) => ram'[At(q, v)] = ram[At(q, v)]
    /\ \A v \in Pages : InSwap(q, v) => swap'[At(q, v)] = swap[At(q, v)]
    /\ pc[q] = "evict" => swap'[call[q].block] = swap[call[q].block]

LEMMA OthersKeep ==
  ASSUME IInv, NEW p \in Procs, Elsewhere(p), NEW q \in Procs, q # p,
         call'[q] = call[q], pc'[q] = pc[q], pte'[q] = pte[q], forked'[q] = forked[q]
  PROVE  DataAt(q)' /\ Mem(q)' = Mem(q)
<1>0. DataAt(q) /\ CallAt(q)
  BY DEF IInv, OwnInv, DataInv, CallInv
<1>1. \A v \in Pages : Seen(q, v)' = Seen(q, v)
  BY SeenRests DEF Elsewhere
<1>2. Mem(q)' = Mem(q)
  BY <1>1 DEF Mem
<1>3. \A v \in Pages : (HasFrame(q, v)' <=> HasFrame(q, v)) /\ At(q, v)' = At(q, v)
  BY DEF HasFrame, At
<1>4. Runs(q)' <=> Runs(q)
  BY DEF Runs
<1>5. pc[q] = "evict" => call[q].victim \in Pages /\ HasFrame(q, call[q].victim)
  BY <1>0 DEF CallAt
<1>6. Runs(q) => \A v \in Pages :
         HasFrame(q, v)' /\ ~pte'[q][v].user => v = Guard /\ ram'[At(q, v)'] = Zero
  BY <1>0, <1>3 DEF DataAt, Elsewhere
<1>7. HasFrame(q, call[q].va)' <=> HasFrame(q, call[q].va)
  BY DEF HasFrame
<1>8. pc[q] = "evict" => swap'[call[q].block] \in {ram'[At(q, call[q].victim)], Torn}
  BY <1>0, <1>5 DEF DataAt, Elsewhere
<1>9. pc'[q] = "evict" => swap'[call'[q].block] \in {ram'[At(q, call[q].victim)'], Torn}
  BY <1>8 DEF At
<1>10. DataAt(q)'
  BY <1>0, <1>4, <1>6, <1>7, <1>9 DEF DataAt
<1>11. QED
  BY <1>2, <1>10

\* What a step of p does to its own memory.
MemMoves(p) ==
  \/ Mem(p)' = Mem(p)
  \/ Mem(p) = Null /\ Mem(p)' = UM!Image(p)
  \/ Mem(p) # Null /\ \E v \in Pages : Mem(p)' = [Mem(p) EXCEPT ![v] = Written(p, v)]
  \/ Mem(p) # Null /\ Mem(p)' = Null
  \/ Mem(p) # Null /\ \E v \in Pages : <<p, v>> \in Exposed /\ Mem(p)' = [Mem(p) EXCEPT ![v] = Torn]

UMStep == [UM!Next]_([p \in Procs |-> Mem(p)])

\* Some exposed pages are torn.
LEMMA TearStep ==
  ASSUME NEW hit \in SUBSET Exposed,
         \A q \in Procs : Mem(q)' = IF Mem(q) = Null THEN Null
           ELSE [w \in Pages |-> IF <<q, w>> \in hit THEN Torn ELSE Mem(q)[w]]
  PROVE  UMStep
<1>. DEFINE m == [q \in Procs |-> Mem(q)]
<1>1. UM!Tear <=> \E h \in SUBSET Exposed :
        m' = [q \in Procs |-> IF m[q] = Null THEN Null
                ELSE [w \in Pages |-> IF <<q, w>> \in h THEN Torn ELSE m[q][w]]]
  BY DEF UM!Tear, Mem
<1>2. m' = [q \in Procs |-> IF m[q] = Null THEN Null
              ELSE [w \in Pages |-> IF <<q, w>> \in hit THEN Torn ELSE m[q][w]]]
  OBVIOUS
<1>3. UM!Tear
  BY <1>1, <1>2
<1>4. QED
  BY <1>3 DEF UMStep, UM!Next

LEMMA StepOf ==
  ASSUME IInv, NEW p \in Procs, Elsewhere(p), DataAt(p)', MemMoves(p),
         \A q \in Procs : q # p =>
           \/ call'[q] = call[q] /\ pc'[q] = pc[q] /\ pte'[q] = pte[q] /\ forked'[q] = forked[q]
           \/ DataAt(q)' /\ Mem(q)' = Mem(q)
  PROVE  DataInv' /\ UMStep
<1>1. \A q \in Procs : q # p => DataAt(q)' /\ Mem(q)' = Mem(q)
  BY OthersKeep
<1>2. DataInv'
  BY <1>1 DEF DataInv
<1>. DEFINE m == [q \in Procs |-> Mem(q)]
<1>3. /\ UM!Start(p) <=> m[p] = Null /\ m' = [m EXCEPT ![p] = UM!Image(p)]
      /\ UM!Stop(p) <=> m[p] # Null /\ m' = [m EXCEPT ![p] = Null]
      /\ \A v \in Pages :
            UM!Write(p, v) <=> m[p] # Null /\ m' = [m EXCEPT ![p][v] = Written(p, v)]
  BY DEF UM!Start, UM!Stop, UM!Write, Mem
<1>4. m' = [m EXCEPT ![p] = Mem(p)'] /\ m[p] = Mem(p)
  BY <1>1
<1>. HIDE DEF m
<1>5. Mem(p)' = Mem(p) => m' = m
  BY <1>1 DEF m
<1>6. CASE Mem(p) = Null /\ Mem(p)' = UM!Image(p)
  <2>1. UM!Start(p)
    BY <1>3, <1>4, <1>6
  <2>2. QED
    BY <1>2, <2>1 DEF UMStep, UM!Next
<1>7. CASE Mem(p) # Null /\ \E v \in Pages : Mem(p)' = [Mem(p) EXCEPT ![v] = Written(p, v)]
  <2>1. PICK v \in Pages : Mem(p)' = [Mem(p) EXCEPT ![v] = Written(p, v)]
    BY <1>7
  <2>2. UM!Write(p, v)
    BY <1>3, <1>4, <1>7, <2>1
  <2>3. QED
    BY <1>2, <2>2 DEF UMStep, UM!Next
<1>8. CASE Mem(p) # Null /\ Mem(p)' = Null
  <2>1. UM!Stop(p)
    BY <1>3, <1>4, <1>8
  <2>2. QED
    BY <1>2, <2>1 DEF UMStep, UM!Next
<1>9. CASE Mem(p) # Null /\ \E v \in Pages :
             <<p, v>> \in Exposed /\ Mem(p)' = [Mem(p) EXCEPT ![v] = Torn]
  <2>1. PICK v \in Pages : <<p, v>> \in Exposed /\ Mem(p)' = [Mem(p) EXCEPT ![v] = Torn]
    BY <1>9
  <2>2. \A q \in Procs : Mem(q) # Null => Mem(q) = [w \in Pages |-> Mem(q)[w]]
    BY DEF Mem
  <2>3. \A q \in Procs : Mem(q)' = IF Mem(q) = Null THEN Null
          ELSE [w \in Pages |-> IF <<q, w>> \in {<<p, v>>} THEN Torn ELSE Mem(q)[w]]
    BY <1>1, <1>9, <2>1, <2>2
  <2>4. UMStep
    BY <2>1, <2>3, TearStep
  <2>5. QED
    BY <1>2, <2>4
<1>10. QED
  BY <1>2, <1>5, <1>6, <1>7, <1>8, <1>9 DEF MemMoves, UMStep, m

LEMMA MemRests ==
  ASSUME NEW p \in Procs, Runs(p)' <=> Runs(p), Runs(p) => \A v \in Pages : Seen(p, v)' = Seen(p, v)
  PROVE  MemMoves(p) /\ Mem(p)' = Mem(p)
<1>1. CASE Runs(p)
  BY <1>1 DEF Mem, Runs, MemMoves
<1>2. CASE ~Runs(p)
  BY <1>2 DEF Mem, Runs, MemMoves
<1>3. QED
  BY <1>1, <1>2

LEMMA MemStops ==
  ASSUME NEW p \in Procs, pc'[p] \in {"unused", "embryo", "zombie", "wrecked"}
  PROVE  MemMoves(p)
<1>1. Mem(p)' = Null
  BY DEF Mem
<1>2. QED
  BY <1>1 DEF MemMoves

\* No page, frame or block changes.
LEMMA QuietStep ==
  ASSUME NEW p \in Procs, ram' = ram, swap' = swap, pte' = pte
  PROVE  /\ Elsewhere(p)
         /\ \A q \in Procs, v \in Pages : Seen(q, v)' = Seen(q, v)
         /\ \A q \in Procs, v \in Pages : (HasFrame(q, v)' <=> HasFrame(q, v)) /\ At(q, v)' = At(q, v)
BY DEF Elsewhere, Seen, HasFrame, At

LEMMA DataStep ==
  ASSUME IInv, [Next]_vars
  PROVE  DataInv' /\ UMStep
<1>0. /\ OwnInv /\ Typed /\ CallInv /\ ChildInv /\ FrameInv /\ SwapInv /\ DataInv /\ pte \in Tables
      /\ call \in [Procs -> CallType] /\ ram \in [Frames -> Content] /\ used \subseteq Swap
      /\ forked \in [Procs -> BOOLEAN] /\ DOMAIN pc = Procs
      /\ \A p \in Procs, v \in Pages : pte[p][v] \in Entries
  BY DEF IInv, OwnInv, Typed, Tables, CallType
<1>1. \A p \in Procs, v \in Pages : HasFrame(p, v) => At(p, v) \in Frames
  BY <1>0, EntryKinds DEF HasFrame, At
<1>2. ASSUME NEW p \in Procs, Alone(p), forked' = forked, Elsewhere(p), DataAt(p)', MemMoves(p)
      PROVE  DataInv' /\ UMStep
  BY <1>2, StepOf DEF Alone
<1>3. ASSUME NEW p \in Procs, NEW v \in Pages, Write(p, v) PROVE DataInv' /\ UMStep
  <2>1. /\ pc[p] = "user" /\ HasFrame(p, v) /\ pte[p][v].user /\ At(p, v) \in Frames
        /\ ram' = [ram EXCEPT ![At(p, v)] = Written(p, v)]
        /\ swap' = swap /\ pte' = pte /\ pc' = pc /\ call' = call /\ forked' = forked
    BY <1>1, <1>3 DEF Write, Accessible, HasFrame, At
  <2>2. /\ ram'[At(p, v)] = Written(p, v)
        /\ \A q \in Procs, w \in Pages :
              HasFrame(q, w) /\ (q # p \/ w # v) => ram'[At(q, w)] = ram[At(q, w)]
    BY <1>0, <1>1, <2>1 DEF FrameInv
  <2>3. Elsewhere(p) /\ Alone(p)
    BY <2>1, <2>2 DEF Elsewhere, Alone
  <2>4. DataAt(p)'
    BY <1>0, <2>1, <2>2 DEF DataInv, DataAt, Runs, HasFrame, At
  <2>5. MemMoves(p)
    <3>1. CASE Runs(p)
      <4>1. Mem(p) # Null /\ Mem(p) = [w \in Pages |-> Seen(p, w)]
        BY <1>0, <3>1, MemOf
      <4>2. Mem(p)' = [w \in Pages |-> Seen(p, w)']
        BY <2>1, <3>1 DEF Mem, Runs
      <4>3. Seen(p, v)' = Written(p, v)
        BY <2>1, <2>2 DEF Seen, Accessible, HasFrame, At
      <4>4. \A w \in Pages : w # v => Seen(p, w)' = Seen(p, w)
        BY <2>1, <2>2, SeenRests
      <4>5. Mem(p)' = [Mem(p) EXCEPT ![v] = Written(p, v)]
        BY <4>1, <4>2, <4>3, <4>4
      <4>6. QED
        BY <4>1, <4>5 DEF MemMoves
    <3>2. CASE ~Runs(p)
      <4>1. ~Runs(p)'
        BY <2>1, <3>2 DEF Runs
      <4>2. QED
        BY <3>2, <4>1, MemRests
    <3>3. QED
      BY <3>1, <3>2
  <2>6. QED
    BY <1>2, <2>1, <2>3, <2>4, <2>5
<1>4. ASSUME NEW p \in Procs, NEW v \in Pages, Fault(p, v) PROVE DataInv' /\ UMStep
  <2>1. /\ pc[p] = "user" /\ pc'[p] = "alloc" /\ v # Guard /\ ~Accessible(pte[p][v])
        /\ ram' = ram /\ swap' = swap /\ pte' = pte /\ forked' = forked
        /\ call'[p].va = v /\ Alone(p)
    BY <1>0, <1>4 DEF Fault, Goto, CallType, Alone
  <2>2. Runs(p)' <=> Runs(p)
    BY <2>1 DEF Runs
  <2>3. Runs(p) => ~HasFrame(p, v)
    BY <1>0, <2>1 DEF DataInv, DataAt, HasFrame, Accessible
  <2>4. DataAt(p)'
    BY <1>0, <2>1, <2>2, <2>3 DEF DataInv, DataAt, HasFrame, At
  <2>5. Elsewhere(p) /\ MemMoves(p)
    BY <2>1, <2>2, QuietStep, MemRests
  <2>6. QED
    BY <1>2, <2>1, <2>4, <2>5
<1>5. ASSUME NEW p \in Procs, Exit(p) \/ Reap(p) \/ NoVictim(p) PROVE DataInv' /\ UMStep
  <2>1. /\ pc'[p] \in {"zombie", "unused", "wrecked"}
        /\ ram' = ram /\ swap' = swap /\ pte' = pte /\ forked' = forked /\ call' = call /\ Alone(p)
    BY <1>0, <1>5 DEF Exit, Reap, NoVictim, Goto, Alone
  <2>2. DataAt(p)'
    BY <2>1 DEF DataAt, Runs
  <2>3. Elsewhere(p) /\ MemMoves(p)
    BY <2>1, QuietStep, MemStops
  <2>4. QED
    BY <1>2, <2>1, <2>2, <2>3
<1>6. ASSUME NEW p \in Procs, Alloc(p) \/ Again(p) PROVE DataInv' /\ UMStep
  <2>1. /\ pc[p] \in {"alloc", "again"} /\ call[p].then \in {"fill", "move"}
        /\ ram' = ram /\ swap' = swap /\ pte' = pte /\ forked' = forked
        /\ call[p] \in CallType
    BY <1>0, <1>6 DEF Alloc, Again, CallInv, CallAt
  <2>2. /\ pc'[p] \in {call[p].then, "swap", "wrecked"} /\ Alone(p)
        /\ \/ call'[p] = call[p]
           \/ \E f \in free : call'[p] = [call[p] EXCEPT !.frame = f]
    <3>1. CASE free = {}
      BY <1>0, <1>6, <3>1 DEF Alloc, Again, Goto, Alone
    <3>2. CASE free # {}
      BY <1>0, <1>6, <3>2 DEF Alloc, Again, TakeFrame, Goto, Alone
    <3>3. QED
      BY <3>1, <3>2
  <2>3. call'[p].va = call[p].va /\ call'[p].then = call[p].then
    BY <2>1, <2>2 DEF CallType
  <2>4. DataAt(p)'
    <3>1. Runs(p)' => Runs(p)
      BY <2>1, <2>2 DEF Runs
    <3>2. QED
      BY <1>0, <2>1, <2>2, <2>3, <3>1 DEF DataInv, DataAt, HasFrame, At
  <2>5. Elsewhere(p) /\ MemMoves(p)
    <3>1. CASE pc'[p] = "wrecked"
      BY <2>1, <3>1, QuietStep, MemStops
    <3>2. CASE pc'[p] # "wrecked"
      <4>1. Runs(p)' <=> Runs(p)
        BY <2>1, <2>2, <3>2 DEF Runs
      <4>2. QED
        BY <2>1, <4>1, QuietStep, MemRests
    <3>3. QED
      BY <3>1, <3>2
  <2>6. QED
    BY <1>2, <2>1, <2>2, <2>4, <2>5
<1>7. ASSUME NEW p \in Procs, Copy(p) PROVE DataInv' /\ UMStep
  <2>1. /\ pc[p] = "copy" /\ pc'[p] = "alloc" /\ Alone(p)
        /\ ram' = ram /\ swap' = swap /\ pte' = pte /\ forked' = forked
        /\ call[p] \in CallType
    BY <1>0, <1>7 DEF Copy, Goto, Alone
  <2>2. PICK v \in Pages : v = call[p].va
    BY <1>0 DEF CallType
  <2>3. /\ call'[p].va = v
        /\ call'[p].then = "fill" => ~HasFrame(p, v)
    <3>1. CASE pte[p][v].kind = "swap"
      BY <1>0, <1>7, <2>1, <2>2, <3>1 DEF Copy, CallType, HasFrame
    <3>2. CASE pte[p][v].kind # "swap"
      <4>1. call'[p] = [call[p] EXCEPT !.then = "move", !.src = pte[p][v]]
        BY <1>0, <1>7, <2>2, <3>2 DEF Copy
      <4>2. QED
        BY <2>1, <2>2, <4>1 DEF CallType
    <3>3. QED
      BY <3>1, <3>2
  <2>4. Runs(p)' <=> Runs(p)
    BY <2>1 DEF Runs
  <2>5. DataAt(p)'
    BY <1>0, <2>1, <2>3, <2>4 DEF DataInv, DataAt, HasFrame, At
  <2>6. Elsewhere(p) /\ MemMoves(p)
    BY <2>1, <2>4, QuietStep, MemRests
  <2>7. QED
    BY <1>2, <2>1, <2>5, <2>6
<1>8. ASSUME NEW p \in Procs, NEW c \in Procs, Fork(p, c) PROVE DataInv' /\ UMStep
  <2>1. /\ pc[p] = "user" /\ pc[c] = "unused" /\ p # c /\ pc'[p] = "copy" /\ pc'[c] = "embryo"
        /\ ram' = ram /\ swap' = swap /\ pte' = pte
        /\ forked'[c] /\ forked'[p] = forked[p]
        /\ \A q \in Procs : q # p => call'[q] = call[q]
        /\ \A q \in Procs : q # p /\ q # c => pc'[q] = pc[q] /\ forked'[q] = forked[q]
    BY <1>0, <1>8 DEF Fork
  <2>2. DataAt(p)' /\ DataAt(c)'
    BY <1>0, <2>1 DEF DataInv, DataAt, Runs, HasFrame, At
  <2>3. Elsewhere(p) /\ MemMoves(p)
    <3>1. Runs(p)' <=> Runs(p)
      BY <2>1 DEF Runs
    <3>2. QED
      BY <2>1, <3>1, QuietStep, MemRests
  <2>4. Mem(c)' = Mem(c)
    BY <2>1 DEF Mem
  <2>5. QED
    BY <2>1, <2>2, <2>3, <2>4, StepOf
<1>9. ASSUME NEW p \in Procs, NEW v \in Pages, SwapOut(p) \/ SysSwap(p, v)
      PROVE  DataInv' /\ UMStep
  <2>1. PICK b \in Swap \ used : b = FirstFree
    BY <1>9, RoomInSwap DEF SwapOut, SysSwap, Balloc
  <2>2. \A d \in used : swap'[d] = swap[d]
    BY <1>9, <2>1 DEF SwapOut, SysSwap, Balloc, Marked
  <2>3. /\ ram' = ram /\ pte' = pte /\ forked' = forked /\ Alone(p)
        /\ pc[p] \in {"swap", "user"} /\ pc'[p] = "write"
    BY <1>0, <1>9 DEF SwapOut, SysSwap, Goto, Alone
  <2>4. \/ call'[p].then = "return"
        \/ pc[p] = "swap" /\ call'[p].then = call[p].then /\ call'[p].va = call[p].va
    <3>1. CASE SwapOut(p)
      <4>1. /\ call'[p] = [call[p] EXCEPT !.victim = Victim(p), !.block = FirstFree]
            /\ call[p] \in CallType
        BY <1>0, <3>1 DEF SwapOut
      <4>2. call'[p].then = call[p].then /\ call'[p].va = call[p].va
        BY <4>1 DEF CallType
      <4>3. QED
        BY <3>1, <4>2 DEF SwapOut
    <3>2. CASE SysSwap(p, v)
      BY <1>0, <3>2 DEF SysSwap, Idle
    <3>3. QED
      BY <1>9, <3>1, <3>2
  <2>5. Runs(p)' <=> Runs(p)
    BY <2>3 DEF Runs
  <2>6. DataAt(p)'
    BY <1>0, <2>3, <2>4, <2>5 DEF DataInv, DataAt, HasFrame, At
  <2>7. Elsewhere(p)
    <3>1. \A q \in Procs : pc[q] = "evict" => call[q].block \in used
      BY <1>0 DEF CallInv, CallAt, SwapInv
    <3>2. QED
      BY <1>0, <2>2, <2>3, <3>1 DEF Elsewhere, SwapInv
  <2>8. MemMoves(p)
    <3>1. \A w \in Pages : Seen(p, w)' = Seen(p, w)
      BY <1>0, <2>2, <2>3, SeenRests DEF SwapInv
    <3>2. QED
      BY <2>5, <3>1, MemRests
  <2>9. QED
    BY <1>2, <2>3, <2>6, <2>7, <2>8
<1>10. ASSUME NEW p \in Procs, WritePage(p) PROVE DataInv' /\ UMStep
  <2>1. PICK b \in Swap : b = call[p].block
    BY <1>0, <1>10 DEF WritePage, CallInv, CallAt, CallType
  <2>2. PICK v \in Pages : v = call[p].victim
    BY <1>0, <1>10 DEF WritePage, CallInv, CallAt
  <2>3. /\ swap' = [swap EXCEPT ![b] = ram[At(p, v)]]
        /\ ram' = ram /\ pte' = pte /\ forked' = forked /\ call' = call /\ Alone(p)
        /\ pc[p] = "write" /\ pc'[p] = "evict"
    BY <1>0, <1>10, <2>1, <2>2 DEF WritePage, Goto, Alone, At
  <2>4. b \in used /\ b # Null
    BY <1>0, <2>1, NullAssumption DEF SwapInv, Swap
  <2>5. swap'[b] = ram[At(p, v)] /\ \A d \in used : d # b => swap'[d] = swap[d]
    BY <2>3, <2>4 DEF used
  <2>6. Runs(p)' <=> Runs(p)
    BY <2>3 DEF Runs
  <2>7. DataAt(p)'
    BY <1>0, <2>1, <2>2, <2>3, <2>5, <2>6 DEF DataInv, DataAt, HasFrame, At
  <2>8. \A q \in Procs, w \in Pages : InSwap(q, w) => swap'[At(q, w)] = swap[At(q, w)]
    BY <1>0, <2>1, <2>5 DEF SwapInv
  <2>9. Elsewhere(p)
    <3>1. \A q \in Procs : q # p /\ pc[q] = "evict" => call[q].block \in used /\ call[q].block # b
      BY <1>0, <2>1, <2>4 DEF CallInv, CallAt, SwapInv
    <3>2. QED
      BY <2>3, <2>5, <2>8, <3>1 DEF Elsewhere
  <2>10. MemMoves(p)
    <3>1. \A w \in Pages : Seen(p, w)' = Seen(p, w)
      BY <2>3, <2>8, SeenRests
    <3>2. QED
      BY <2>6, <3>1, MemRests
  <2>11. QED
    BY <1>2, <2>3, <2>7, <2>9, <2>10
<1>11. ASSUME NEW p \in Procs, Evict(p) PROVE DataInv' /\ UMStep
  <2>1. PICK b \in Swap : b = call[p].block
    BY <1>0, <1>11 DEF Evict, CallInv, CallAt, CallType
  <2>2. PICK v \in Pages : v = call[p].victim /\ HasFrame(p, v)
    BY <1>0, <1>11 DEF Evict, CallInv, CallAt
  <2>3. PICK e \in Entries : /\ e = Entry("swap", b, FALSE) /\ e.kind = "swap" /\ e.at = b
                             /\ e.user = FALSE
    BY EntryKinds
  <2>4. PICK f \in Frames : f = At(p, v)
    BY <1>1, <2>2
  <2>5. /\ pte' = [pte EXCEPT ![p][v] = e] /\ ram' = [ram EXCEPT ![f] = Junk]
        /\ swap' = swap /\ forked' = forked /\ pc[p] = "evict"
        /\ \A q \in Procs : q # p => call'[q] = call[q] /\ pc'[q] = pc[q]
    BY <1>0, <1>11, <2>1, <2>2, <2>3, <2>4 DEF Evict, Goto, At
  <2>6. /\ pte'[p][v] = e
        /\ \A q \in Procs, w \in Pages : q # p \/ w # v => pte'[q][w] = pte[q][w]
        /\ Alone(p)
    BY <1>0, <2>5 DEF Tables, Alone
  <2>7. \A q \in Procs, w \in Pages :
           HasFrame(q, w) /\ (q # p \/ w # v) => ram'[At(q, w)] = ram[At(q, w)]
    BY <1>0, <1>1, <2>2, <2>4, <2>5 DEF FrameInv
  <2>8. \/ pc'[p] = "user"
        \/ pc'[p] = "again" /\ call'[p].then = call[p].then /\ call'[p].va = call[p].va
    <3>1. CASE call[p].then = "return"
      BY <1>0, <1>11, <3>1 DEF Evict, Goto
    <3>2. CASE call[p].then # "return"
      <4>1. pc'[p] = "again" /\ call'[p] = [call[p] EXCEPT !.victim = Null, !.block = Null]
        BY <1>0, <1>11, <3>2 DEF Evict, Goto
      <4>2. QED
        BY <1>0, <4>1 DEF CallType
    <3>3. QED
      BY <3>1, <3>2
  <2>9. Runs(p)' <=> Runs(p)
    BY <2>5, <2>8 DEF Runs
  <2>10. \A w \in Pages : HasFrame(p, w)' => HasFrame(p, w) /\ w # v /\ pte'[p][w] = pte[p][w]
    BY <2>3, <2>6 DEF HasFrame
  <2>11. DataAt(p)'
    <3>1. Runs(p)' => \A w \in Pages : HasFrame(p, w)' /\ ~pte'[p][w].user =>
                         w = Guard /\ ram'[At(p, w)'] = Zero
      BY <1>0, <2>7, <2>9, <2>10 DEF DataInv, DataAt, At
    <3>2. PICK w \in Pages : w = call[p].va
      BY <1>0 DEF CallType
    <3>3. /\ Runs(p)' /\ pc'[p] = "again" /\ call'[p].then = "fill" => ~HasFrame(p, w)'
      BY <1>0, <2>5, <2>8, <2>9, <2>10, <3>2 DEF DataInv, DataAt
    <3>4. call'[p].va = w \/ pc'[p] = "user"
      BY <2>8, <3>2
    <3>5. QED
      BY <2>8, <3>1, <3>3, <3>4 DEF DataAt, HasFrame
  <2>12. Elsewhere(p)
    BY <2>5, <2>7 DEF Elsewhere
  <2>13. MemMoves(p)
    <3>1. \A w \in Pages : w # v => Seen(p, w)' = Seen(p, w)
      BY <2>5, <2>6, <2>7, SeenRests
    <3>2. Seen(p, v)' = swap[b]
      BY <2>3, <2>5, <2>6 DEF Seen, Accessible
    <3>3. swap[b] = ram[f] \/ swap[b] = Torn
      BY <1>0, <2>1, <2>2, <2>4, <2>5 DEF DataInv, DataAt
    <3>4. CASE swap[b] = ram[f]
      <4>1. ASSUME Runs(p), pte[p][v].user PROVE Seen(p, v)' = Seen(p, v)
        BY <2>2, <2>4, <3>2, <3>4, <4>1 DEF Seen, Accessible, HasFrame, At
      <4>2. ASSUME Runs(p), ~pte[p][v].user PROVE Seen(p, v)' = Seen(p, v)
        <5>1. ram[f] = Zero
          BY <1>0, <2>2, <2>4, <4>2 DEF DataInv, DataAt
        <5>2. QED
          BY <2>2, <3>2, <3>4, <4>2, <5>1 DEF Seen, Accessible, HasFrame
      <4>3. QED
        BY <2>9, <3>1, <4>1, <4>2, MemRests
    <3>5. CASE swap[b] = Torn
      <4>1. <<p, v>> \in Exposed
        BY <1>11, <2>1, <2>2, <3>5 DEF Exposed, Slots, Evict
      <4>2. CASE Runs(p)
        <5>1. Mem(p) # Null /\ Mem(p) = [w \in Pages |-> Seen(p, w)]
          BY <1>0, <4>2, MemOf
        <5>2. Mem(p)' = [w \in Pages |-> Seen(p, w)']
          BY <2>9, <4>2 DEF Mem, Runs
        <5>3. Mem(p)' = [Mem(p) EXCEPT ![v] = Torn]
          BY <3>1, <3>2, <3>5, <5>1, <5>2
        <5>4. QED
          BY <4>1, <5>1, <5>3 DEF MemMoves
      <4>3. CASE ~Runs(p)
        BY <2>9, <4>3, MemRests
      <4>4. QED
        BY <4>2, <4>3
    <3>6. QED
      BY <3>3, <3>4, <3>5
  <2>14. QED
    BY <1>2, <2>5, <2>6, <2>11, <2>12, <2>13
<1>12. ASSUME NEW p \in Procs, FillSwapped(p) \/ FillZero(p) PROVE DataInv' /\ UMStep
  <2>1. PICK v \in Pages : v = call[p].va
    BY <1>0 DEF CallType
  <2>2. PICK f \in Frames : f = call[p].frame
    BY <1>0, <1>12 DEF FillSwapped, FillZero, CallInv, CallAt, CallType
  <2>3. PICK e \in Entries : e = Entry("frame", f, TRUE) /\ e.kind = "frame" /\ e.at = f /\ e.user = TRUE
    BY EntryKinds
  <2>4. /\ pte' = [pte EXCEPT ![p][v] = e] /\ swap' = swap /\ forked' = forked /\ pc[p] = "fill"
        /\ \A q \in Procs : q # p => call'[q] = call[q] /\ pc'[q] = pc[q]
        /\ pc'[p] \in {"bfree", "user", "copy"}
    BY <1>0, <1>12, <2>1, <2>2, <2>3 DEF FillSwapped, FillZero, Goto, Back
  <2>5. /\ pte'[p][v] = e
        /\ \A q \in Procs, w \in Pages : q # p \/ w # v => pte'[q][w] = pte[q][w]
        /\ Alone(p)
    BY <1>0, <2>4 DEF Tables, Alone
  <2>6. /\ Runs(p) => Seen(p, v) = ram'[f]
        /\ \A g \in Frames : g # f => ram'[g] = ram[g]
    <3>1. CASE FillSwapped(p)
      <4>1. ram' = [ram EXCEPT ![f] = swap[pte[p][v].at]] /\ pte[p][v].kind = "swap"
        BY <2>1, <2>2, <3>1 DEF FillSwapped, ReadPage
      <4>2. QED
        BY <1>0, <4>1 DEF Seen, Accessible
    <3>2. CASE FillZero(p)
      <4>1. ram' = [ram EXCEPT ![f] = Zero] /\ pte[p][v].kind # "swap"
        BY <2>1, <2>2, <3>2 DEF FillZero
      <4>2. Runs(p) => ~HasFrame(p, v)
        BY <1>0, <2>1, <2>4 DEF DataInv, DataAt
      <4>3. QED
        BY <1>0, <4>1, <4>2 DEF Seen, Accessible, HasFrame
    <3>3. QED
      BY <1>12, <3>1, <3>2
  <2>7. \A q \in Procs, w \in Pages : HasFrame(q, w) => ram'[At(q, w)] = ram[At(q, w)]
    BY <1>0, <1>1, <2>2, <2>6 DEF FrameInv
  <2>8. Runs(p)' <=> Runs(p)
    BY <2>4 DEF Runs
  <2>9. \A w \in Pages : HasFrame(p, w)' /\ ~pte'[p][w].user =>
                           HasFrame(p, w) /\ pte'[p][w] = pte[p][w]
    BY <2>3, <2>5 DEF HasFrame
  <2>10. DataAt(p)'
    <3>1. Runs(p)' => \A w \in Pages : HasFrame(p, w)' /\ ~pte'[p][w].user =>
                         w = Guard /\ ram'[At(p, w)'] = Zero
      BY <1>0, <2>7, <2>8, <2>9 DEF DataInv, DataAt, At
    <3>2. QED
      BY <2>4, <3>1 DEF DataAt
  <2>11. Elsewhere(p)
    BY <2>4, <2>7 DEF Elsewhere
  <2>12. MemMoves(p)
    <3>1. Seen(p, v)' = ram'[f]
      BY <2>3, <2>5 DEF Seen, Accessible
    <3>2. \A w \in Pages : w # v => Seen(p, w)' = Seen(p, w)
      BY <2>4, <2>5, <2>7, SeenRests
    <3>3. QED
      BY <2>6, <2>8, <3>1, <3>2, MemRests
  <2>13. QED
    BY <1>2, <2>4, <2>5, <2>10, <2>11, <2>12
<1>13. ASSUME NEW p \in Procs, Bfree(p) PROVE DataInv' /\ UMStep
  <2>1. PICK b \in Swap : b = call[p].block
    BY <1>0, <1>13 DEF Bfree, CallInv, CallAt, CallType
  <2>2. /\ ram' = ram /\ pte' = pte /\ forked' = forked /\ Alone(p)
        /\ pc[p] = "bfree" /\ pc'[p] \in {"user", "copy"}
        /\ swap' = Restrict(swap, used \ {b})
    BY <1>0, <1>13, <2>1 DEF Bfree, Release, Goto, Back, Alone
  <2>3. b # Null /\ \A d \in used : d # b => swap'[d] = swap[d]
    BY <2>2, NullAssumption DEF Restrict, Swap
  <2>4. \A q \in Procs, w \in Pages : InSwap(q, w) => swap'[At(q, w)] = swap[At(q, w)]
    BY <1>0, <2>1, <2>3 DEF SwapInv
  <2>5. Elsewhere(p)
    <3>1. \A q \in Procs : q # p /\ pc[q] = "evict" => call[q].block \in used /\ call[q].block # b
      BY <1>0, <2>1, <2>3 DEF CallInv, CallAt, SwapInv
    <3>2. QED
      BY <2>2, <2>3, <2>4, <3>1 DEF Elsewhere
  <2>6. Runs(p)' <=> Runs(p)
    BY <2>2 DEF Runs
  <2>7. DataAt(p)'
    BY <1>0, <2>2, <2>6 DEF DataInv, DataAt, HasFrame, At
  <2>8. MemMoves(p)
    <3>1. \A w \in Pages : Seen(p, w)' = Seen(p, w)
      BY <2>2, <2>4, SeenRests
    <3>2. QED
      BY <2>6, <3>1, MemRests
  <2>9. QED
    BY <1>2, <2>2, <2>5, <2>7, <2>8
<1>14. ASSUME NEW p \in Procs, Move(p) PROVE DataInv' /\ UMStep
  <2>1. PICK c \in Procs : c = call[p].child
    BY <1>0, <1>14 DEF Move, CallInv, CallAt, CallType
  <2>2. PICK f \in Frames : f = call[p].frame
    BY <1>0, <1>14 DEF Move, CallInv, CallAt, CallType
  <2>3. /\ pc[c] = "embryo" /\ pc[p] = "move" /\ p # c /\ forked[c]
    BY <1>0, <1>14, <2>1 DEF Move, ChildInv, DataInv, DataAt
  <2>4. /\ \A g \in Frames : g # f => ram'[g] = ram[g]
        /\ swap' = swap /\ forked' = forked
        /\ \A q \in Procs : q # p => call'[q] = call[q]
        /\ \A q \in Procs : q # c => pte'[q] = pte[q]
        /\ \A q \in Procs : q # p /\ q # c => pc'[q] = pc[q]
        /\ pc'[p] \in {"user", "copy"} /\ pc'[c] \in {"user", "embryo"}
    BY <1>0, <1>14, <2>1, <2>2, <2>3 DEF Move, Tables
  <2>5. \A q \in Procs, w \in Pages : HasFrame(q, w) => ram'[At(q, w)] = ram[At(q, w)]
    BY <1>0, <1>1, <2>2, <2>4 DEF FrameInv
  <2>6. Elsewhere(p)
    BY <2>4, <2>5 DEF Elsewhere
  <2>7. Runs(p)' <=> Runs(p)
    BY <2>3, <2>4 DEF Runs
  <2>8. DataAt(p)' /\ DataAt(c)'
    <3>1. \A w \in Pages : HasFrame(p, w)' => HasFrame(p, w) /\ pte'[p][w] = pte[p][w]
      BY <2>3, <2>4 DEF HasFrame
    <3>2. Runs(p)' => \A w \in Pages : HasFrame(p, w)' /\ ~pte'[p][w].user =>
                         w = Guard /\ ram'[At(p, w)'] = Zero
      BY <1>0, <2>5, <2>7, <3>1 DEF DataInv, DataAt, At
    <3>3. DataAt(p)'
      BY <2>4, <3>2 DEF DataAt
    <3>4. DataAt(c)'
      BY <2>3, <2>4 DEF DataAt, Runs
    <3>5. QED
      BY <3>3, <3>4
  <2>9. MemMoves(p)
    <3>1. \A w \in Pages : Seen(p, w)' = Seen(p, w)
      BY <2>3, <2>4, <2>5, SeenRests
    <3>2. QED
      BY <2>7, <3>1, MemRests
  <2>10. Mem(c)' = Mem(c)
    BY <2>3, <2>4 DEF Mem
  <2>11. QED
    BY <2>3, <2>4, <2>6, <2>8, <2>9, <2>10, StepOf
<1>15. ASSUME NEW p \in Procs, Start(p) PROVE DataInv' /\ UMStep
  <2>1. PICK at \in Injection(0..TextPages + 1, free) :
          /\ pte' = [pte EXCEPT ![p] = [v \in Pages |->
               IF v \in DOMAIN at THEN Entry("frame", at[v], v # Guard) ELSE Unmapped]]
          /\ ram' = [f \in Frames |->
               IF f \notin Range(at) THEN ram[f]
               ELSE LET v == AntiFunction(at)[f]
                    IN  IF v # Guard THEN Written(p, v) ELSE Zero]
    BY <1>15 DEF Start
  <2>2. /\ pc[p] = "unused" /\ pc'[p] = "user" /\ call' = call /\ swap' = swap
        /\ ~forked'[p] /\ \A q \in Procs : q # p => forked'[q] = forked[q] /\ pc'[q] = pc[q]
        /\ \A q \in Procs : q # p => pte'[q] = pte[q]
    BY <1>0, <1>15, <2>1 DEF Start, Goto, Tables
  <2>3. /\ DOMAIN at = 0..TextPages + 1 /\ \A v \in DOMAIN at : at[v] \in free /\ at[v] \in Range(at)
        /\ \A v, w \in DOMAIN at : at[v] = at[w] => v = w
        /\ Range(at) \subseteq free
    BY DEF Injection, IsInjective, Range
  <2>4. ASSUME NEW v \in DOMAIN at
        PROVE  ram'[at[v]] = IF v # Guard THEN Written(p, v) ELSE Zero
    <3>1. AntiFunction(at)[at[v]] = v
      <4>1. AntiFunction(at)[at[v]] = CHOOSE w \in DOMAIN at : at[v] \in Range(at) => at[w] = at[v]
        BY <2>3 DEF AntiFunction, Inverse
      <4>2. QED
        BY <2>3, <4>1
    <3>2. at[v] \in Frames /\ at[v] \in Range(at)
      BY <1>0, <2>3 DEF Typed
    <3>3. QED
      BY <2>1, <3>1, <3>2
  <2>5. \A q \in Procs, w \in Pages : HasFrame(q, w) => ram'[At(q, w)] = ram[At(q, w)]
    BY <1>0, <1>1, <2>1, <2>3 DEF FrameInv
  <2>6. Elsewhere(p)
    BY <2>2, <2>5 DEF Elsewhere
  <2>7. \A v \in Pages : pte'[p][v] = IF v \in DOMAIN at THEN Entry("frame", at[v], v # Guard) ELSE Unmapped
    BY <1>0, <2>1 DEF Tables
  <2>8. DataAt(p)'
    <3>1. ASSUME NEW v \in Pages, HasFrame(p, v)', ~pte'[p][v].user
          PROVE  v = Guard /\ ram'[At(p, v)'] = Zero
      <4>1. v \in DOMAIN at /\ pte'[p][v] = Entry("frame", at[v], v # Guard)
        BY <2>7, <3>1, EntryKinds DEF HasFrame
      <4>2. v = Guard /\ At(p, v)' = at[v]
        <5>1. pte'[p][v].user = (v # Guard) /\ pte'[p][v].at = at[v]
          BY <4>1 DEF Entry
        <5>2. QED
          BY <3>1, <5>1 DEF At
      <4>3. QED
        BY <2>4, <4>1, <4>2
    <3>2. QED
      BY <2>2, <3>1 DEF DataAt
  <2>9. MemMoves(p)
    <3>1. Mem(p) = Null /\ Mem(p)' = [v \in Pages |-> Seen(p, v)']
      BY <2>2 DEF Mem
    <3>2. ASSUME NEW v \in Pages
          PROVE  Seen(p, v)' = IF v \in DOMAIN at /\ v # Guard THEN Written(p, v) ELSE Zero
      <4>1. CASE v \in DOMAIN at /\ v # Guard
        <5>1. pte'[p][v] = Entry("frame", at[v], TRUE)
          BY <2>7, <4>1
        <5>2. Seen(p, v)' = ram'[at[v]]
          BY <5>1 DEF Seen, Accessible, Entry
        <5>3. QED
          BY <2>4, <4>1, <5>2
      <4>2. CASE v = Guard
        <5>1. pte'[p][v] = Entry("frame", at[v], FALSE) \/ pte'[p][v] = Unmapped
          BY <2>7, <4>2
        <5>2. Seen(p, v)' = Zero
          BY <5>1 DEF Seen, Accessible, Entry, Unmapped
        <5>3. QED
          BY <4>2, <5>2
      <4>3. CASE v \notin DOMAIN at
        <5>1. Seen(p, v)' = Zero
          BY <2>7, <4>3, EntryKinds DEF Seen, Accessible
        <5>2. QED
          BY <4>3, <5>1
      <4>4. QED
        BY <4>1, <4>2, <4>3
    <3>3. Mem(p)' = UM!Image(p)
      <4>1. \A v \in Pages : v \in DOMAIN at /\ v # Guard <=> v \in (0..TextPages + 1) \ {TextPages}
        BY <2>3 DEF Guard
      <4>2. QED
        BY <3>1, <3>2, <4>1 DEF UM!Image
    <3>4. QED
      BY <3>1, <3>3 DEF MemMoves
  <2>10. QED
    BY <2>2, <2>6, <2>8, <2>9, StepOf
<1>16. ASSUME NEW p \in Procs, NEW v \in Pages, FreePage(p, v) PROVE DataInv' /\ UMStep
  <2>1. /\ pc[p] = "zombie" /\ pc' = pc /\ call' = call /\ forked' = forked
        /\ pte' = [pte EXCEPT ![p][v] = Unmapped]
    BY <1>16 DEF FreePage
  <2>2. Alone(p)
    BY <1>0, <2>1 DEF Alone, Tables
  <2>3. Elsewhere(p)
    <3>1. CASE InSwap(p, v)
      <4>1. ram' = ram /\ swap' = Restrict(swap, used \ {At(p, v)})
        BY <1>16, <3>1 DEF FreePage, Release, InSwap, At
      <4>2. \A d \in used : d # At(p, v) => swap'[d] = swap[d]
        BY <4>1 DEF Restrict
      <4>3. \A q \in Procs : q # p /\ pc[q] = "evict" => call[q].block \in used /\ call[q].block # At(p, v)
        BY <1>0, <3>1 DEF CallInv, CallAt, SwapInv
      <4>4. QED
        BY <1>0, <3>1, <4>1, <4>2, <4>3 DEF Elsewhere, SwapInv
    <3>2. CASE ~InSwap(p, v)
      <4>1. HasFrame(p, v) /\ swap' = swap /\ ram' = [ram EXCEPT ![At(p, v)] = Junk]
        BY <1>0, <1>16, <3>2, EntryKinds DEF FreePage, InSwap, HasFrame, At
      <4>2. \A q \in Procs, w \in Pages : q # p /\ HasFrame(q, w) => ram'[At(q, w)] = ram[At(q, w)]
        BY <1>0, <1>1, <4>1 DEF FrameInv
      <4>3. QED
        BY <4>1, <4>2 DEF Elsewhere
    <3>3. QED
      BY <3>1, <3>2
  <2>4. DataAt(p)'
    BY <2>1 DEF DataAt, Runs
  <2>5. MemMoves(p)
    BY <2>1, MemStops
  <2>6. QED
    BY <1>2, <2>1, <2>2, <2>3, <2>4, <2>5
<1>17. CASE Install
  <2>1. /\ ram' = ram /\ pte' = pte /\ pc' = pc /\ call' = call /\ forked' = forked
        /\ \A b \in used : swap'[b] = IF b \in past THEN Torn ELSE swap[b]
    BY <1>17 DEF Install, Installed
  <2>2. /\ \A q \in Procs : pc[q] = "evict" => call[q].block \in used
        /\ \A q \in Procs, w \in Pages : InSwap(q, w) => At(q, w) \in used
    BY <1>0 DEF CallInv, CallAt, SwapInv
  <2>3. DataInv'
    BY <1>0, <2>1, <2>2 DEF DataInv, DataAt, Runs, HasFrame, At
  <2>. DEFINE hit == {s \in Slots : InSwap(s[1], s[2]) /\ At(s[1], s[2]) \in past}
  <2>4. hit \subseteq Exposed
    BY DEF Exposed, InSwap, At
  <2>5. ASSUME NEW q \in Procs, NEW w \in Pages
        PROVE  Seen(q, w)' = IF <<q, w>> \in hit THEN Torn ELSE Seen(q, w)
    <3>1. CASE InSwap(q, w)
      <4>1. Seen(q, w) = swap[At(q, w)] /\ Seen(q, w)' = swap'[At(q, w)]
        BY <2>1, <3>1 DEF Seen, Accessible, InSwap, At
      <4>2. <<q, w>> \in hit <=> At(q, w) \in past
        BY <3>1 DEF Slots
      <4>3. QED
        BY <2>1, <2>2, <3>1, <4>1, <4>2
    <3>2. CASE ~InSwap(q, w)
      BY <2>1, <3>2, SeenRests
    <3>3. QED
      BY <3>1, <3>2
  <2>. HIDE DEF hit
  <2>6. ASSUME NEW q \in Procs
        PROVE  Mem(q)' = IF Mem(q) = Null THEN Null
                 ELSE [w \in Pages |-> IF <<q, w>> \in hit THEN Torn ELSE Mem(q)[w]]
    <3>1. CASE Runs(q)
      <4>1. Mem(q) # Null /\ Mem(q) = [w \in Pages |-> Seen(q, w)]
        BY <1>0, <3>1, MemOf
      <4>2. Mem(q)' = [w \in Pages |-> Seen(q, w)']
        BY <2>1, <3>1 DEF Mem, Runs
      <4>3. QED
        BY <2>5, <4>1, <4>2
    <3>2. CASE ~Runs(q)
      BY <2>1, <3>2 DEF Mem, Runs
    <3>3. QED
      BY <3>1, <3>2
  <2>7. UMStep
    <3>1. PICK h : h = hit
      OBVIOUS
    <3>2. h \in SUBSET Exposed
      BY <2>4, <3>1
    <3>3. \A q \in Procs : Mem(q)' = IF Mem(q) = Null THEN Null
            ELSE [w \in Pages |-> IF <<q, w>> \in h THEN Torn ELSE Mem(q)[w]]
      BY <2>6, <3>1
    <3>4. QED
      BY <3>2, <3>3, TearStep
  <2>8. QED
    BY <2>3, <2>7
<1>18. CASE WriteLog \/ UNCHANGED vars
  <2>1. /\ free' = free /\ ram' = ram /\ swap' = swap /\ pte' = pte /\ pc' = pc /\ call' = call
        /\ forked' = forked
    BY <1>18 DEF vars, WriteLog
  <2>2. DataInv'
    BY <1>0, <2>1 DEF DataInv, DataAt, Runs, HasFrame, At
  <2>3. \A p \in Procs : Mem(p)' = Mem(p)
    BY <2>1 DEF Mem, Seen
  <2>4. QED
    BY <2>2, <2>3 DEF UMStep
<1>19. QED
  BY <1>3, <1>4, <1>5, <1>6, <1>7, <1>8, <1>9, <1>10, <1>11, <1>12, <1>13, <1>14, <1>15, <1>16,
     <1>17, <1>18, ForkAssumption, IdleType DEF Next, KernelStep

LEMMA DataInit == Init => DataInv
BY IdleType DEF Init, DataInv, DataAt, Runs

\* What a program sees is backed by the whole invariant, which is inductive.
THEOREM InductiveAll == Spec => []IInv
<1>1. Init => IInv
  BY OwnInit, DataInit DEF IInv
<1>2. IInv /\ [Next]_vars => IInv'
  BY OwnStep, DataStep DEF IInv
<1>3. QED
  BY <1>1, <1>2, PTL DEF Spec

\* Paging implements UserMemory: whatever is swapped out, by whom, and whoever takes the
\* frames, a program that exec has started reads what it wrote last, except in the pages
\* that were written to the swap area while a commit held their zeros.
THEOREM Refinement == Spec => ImplementsMemory
<1>. DEFINE m == [p \in Procs |-> IF forked[p] \/ pc[p] \in {"unused", "embryo", "zombie", "wrecked"}
                                  THEN Null ELSE [v \in Pages |-> Seen(p, v)]]
<1>1. Init => UM!Init
  BY DEF Init, UM!Init
<1>2. IInv /\ [Next]_vars => [UM!Next]_m
  <2>1. m = [p \in Procs |-> Mem(p)]
    BY DEF Mem
  <2>2. QED
    BY <2>1, DataStep DEF UMStep, Mem
<1>3. QED
  BY <1>1, <1>2, InductiveAll, PTL DEF Spec, ImplementsMemory, UM!Spec
=============================================================================
