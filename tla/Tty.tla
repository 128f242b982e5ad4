-------------------------------- MODULE Tty ---------------------------------
(***************************************************************************)
(* What the console promises: a line is edited until it is finished, by a  *)
(* newline, a control-D or because no more fits, and a finished line is    *)
(* read once, in order.                                                    *)
(***************************************************************************)
EXTENDS Naturals, Sequences

CONSTANTS Cap, Plain, Ends

VARIABLES line, ready

vars == <<line, ready>>

Init == line = <<>> /\ ready = <<>>

Type(c) ==
  /\ Len(line) + Len(ready) < Cap
  /\ IF c \in Ends \/ Len(line) + Len(ready) + 1 = Cap
     THEN line' = <<>> /\ ready' = ready \o Append(line, c)
     ELSE line' = Append(line, c) /\ UNCHANGED ready

Erase == line # <<>> /\ line' \in {SubSeq(line, 1, Len(line) - 1), <<>>} /\ UNCHANGED ready

\* the next reader takes from the front, and nothing behind a newline
Take ==
  /\ \E k \in 1..Len(ready) : ready' = SubSeq(ready, k + 1, Len(ready)) /\ \A i \in 1..k - 1 : ready[i] \notin Ends
  /\ UNCHANGED line

Next == (\E c \in Plain \cup Ends : Type(c)) \/ Erase \/ Take

Spec == Init /\ [][Next]_vars
=============================================================================
