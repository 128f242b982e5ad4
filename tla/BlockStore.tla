----------------------------- MODULE BlockStore -----------------------------
(***************************************************************************)
(* What the buffer cache promises: blocks that are read and written whole, *)
(* in some order, and that keep what was written last.  A block the disk   *)
(* failed to deliver (failed) reads as anything until it is written.       *)
(* Module Disk implements it.                                              *)
(***************************************************************************)
CONSTANTS Procs, Blocks, Values, NoValue

VARIABLES
  content,
  got,         \* the block a process has just read or written, and its content
  failed

vars == <<content, got, failed>>

Init == /\ content \in [Blocks -> Values]
        /\ got = [p \in Procs |-> NoValue]
        /\ failed = {}

Read(p, b) ==
  \E v \in Values :
    /\ b \in failed \/ v = content[b]
    /\ got' = [got EXCEPT ![p] = <<b, v>>]
    /\ UNCHANGED <<content, failed>>

Write(p, b, v) ==
  /\ content' = [content EXCEPT ![b] = v]
  /\ got' = [got EXCEPT ![p] = <<b, v>>]
  /\ failed' = failed \ {b}

Forget(p) == got' = [got EXCEPT ![p] = NoValue] /\ UNCHANGED <<content, failed>>

Fail(b) ==
  /\ failed' = failed \cup {b} /\ content' = [content EXCEPT ![b] = 0]
  /\ UNCHANGED got

Next ==
  \/ \E p \in Procs : Forget(p) \/ \E b \in Blocks : Read(p, b) \/ \E v \in Values : Write(p, b, v)
  \/ \E b \in Blocks : Fail(b)

Spec == Init /\ [][Next]_vars
=============================================================================
