----------------------------- MODULE UserMemory -----------------------------
(***************************************************************************)
(* What demand paging promises to a program that exec has started: a       *)
(* memory of its own, in which a page keeps what the program wrote last,   *)
(* and reads as zero until then.  Only an exposed page may be torn, and    *)
(* stays so until it is written again.  Module Paging implements it, and   *)
(* says when a page is exposed.                                            *)
(***************************************************************************)
EXTENDS Naturals

CONSTANTS Procs, Pages, TextPages, Written(_, _), Zero, Torn, Nobody

VARIABLES memory, exposed

\* the program, the guard page, the stack with its arguments
Image(p) == [v \in Pages |-> IF v \in (0..TextPages + 1) \ {TextPages} THEN Written(p, v) ELSE Zero]

Init == memory = [p \in Procs |-> Nobody]

Start(p)    == memory[p] = Nobody /\ memory' = [memory EXCEPT ![p] = Image(p)]
Write(p, v) == memory[p] # Nobody /\ memory' = [memory EXCEPT ![p][v] = Written(p, v)]
Stop(p)     == memory[p] # Nobody /\ memory' = [memory EXCEPT ![p] = Nobody]

\* Pages the swap area does not answer for lose what they held.
Tear ==
  \E hit \in SUBSET exposed :
    memory' = [p \in Procs |-> IF memory[p] = Nobody THEN Nobody ELSE
                [v \in Pages |-> IF <<p, v>> \in hit THEN Torn ELSE memory[p][v]]]

Next == Tear \/ \E p \in Procs : Start(p) \/ Stop(p) \/ \E v \in Pages : Write(p, v)

Spec == Init /\ [][Next]_memory
=============================================================================
