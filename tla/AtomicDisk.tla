----------------------------- MODULE AtomicDisk -----------------------------
(***************************************************************************)
(* What the log promises to the file system: operations change the blocks  *)
(* they see (cur) one at a time, and what survives a crash (dur) is always *)
(* the content at some moment when no operation was in progress.  Module   *)
(* Log implements it.                                                      *)
(***************************************************************************)
CONSTANTS Ops, Blocks

VARIABLES cur, dur, active

vars == <<cur, dur, active>>

Init == /\ cur = [b \in Blocks |-> {}] /\ dur = cur
        /\ active = {}

Begin(o) == active' = active \cup {o} /\ UNCHANGED <<cur, dur>>

Write(o, b) == /\ o \in active
               /\ cur' = [cur EXCEPT ![b] = @ \cup {o}]
               /\ UNCHANGED <<dur, active>>

End(o) == /\ o \in active /\ active' = active \ {o}
          /\ UNCHANGED <<cur, dur>>

Commit == active = {} /\ dur' = cur /\ UNCHANGED <<cur, active>>

Crash == cur' = dur /\ active' = {} /\ UNCHANGED dur

Next == \/ \E o \in Ops : Begin(o) \/ End(o) \/ \E b \in Blocks : Write(o, b)
        \/ Commit \/ Crash

Spec == Init /\ [][Next]_vars
=============================================================================
