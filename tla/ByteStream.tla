----------------------------- MODULE ByteStream -----------------------------
(***************************************************************************)
(* What a pipe promises to the two sides that share it: a first-in         *)
(* first-out stream of bytes of bounded capacity, whose ends are closed    *)
(* once and stay closed.  Module Pipe implements it.                       *)
(***************************************************************************)
EXTENDS Naturals, Sequences

CONSTANTS Byte, Capacity

VARIABLES stream, wopen, ropen

Init == stream = <<>> /\ wopen = TRUE /\ ropen = TRUE

Put == /\ wopen /\ Len(stream) < Capacity
       /\ \E b \in Byte : stream' = Append(stream, b)
       /\ UNCHANGED <<wopen, ropen>>

Get == /\ ropen /\ stream # <<>>
       /\ stream' = Tail(stream)
       /\ UNCHANGED <<wopen, ropen>>

CloseWriter == wopen /\ wopen' = FALSE /\ UNCHANGED <<stream, ropen>>

CloseReader == ropen /\ ropen' = FALSE /\ UNCHANGED <<stream, wopen>>

Next == Put \/ Get \/ CloseWriter \/ CloseReader

Spec == Init /\ [][Next]_<<stream, wopen, ropen>>
=============================================================================
