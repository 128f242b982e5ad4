--------------------------------- MODULE Rtc --------------------------------
(***************************************************************************)
(* cmostime of lapic.c: reads the registers of the CMOS clock, which goes  *)
(* on by itself, one after the other.  The clock starts at StartTime, a    *)
(* sequence of seconds, minutes and hours (day, month and year are carried *)
(* to in the same way), and goes on MaxSeconds times during the call.      *)
(***************************************************************************)
EXTENDS Naturals, Sequences, FiniteSets

CONSTANTS StartTime, MaxSeconds

VARIABLES
  regs, uip, going, seconds, bcd,   \* registers, update in progress, registers it has to change
  tpc, t1, t2, shown                \* cmostime: where, its locals, times shown since it began

rtcvars == <<regs, uip, going, seconds, bcd, tpc, t1, t2, shown>>

Limit == <<60, 60, 24>>
Bcd(v) == (v \div 10) * 16 + (v % 10)

\* CONV
Conv(x) == IF bcd THEN (x \div 16) * 10 + (x % 16) ELSE x
Time == [i \in 1..3 |-> Conv(regs[i])]

Init ==
  /\ bcd = TRUE /\ regs = [i \in 1..3 |-> Bcd(StartTime[i])]
  /\ uip = FALSE /\ going = <<>> /\ seconds = 0
  /\ tpc = "idle" /\ t1 = <<>> /\ t2 = <<>> /\ shown = {}

-----------------------------------------------------------------------------

\* a second has passed: the registers change one after the other while UIP is set
Second ==
  /\ ~uip /\ seconds < MaxSeconds /\ tpc # "done"
  /\ seconds' = seconds + 1 /\ uip' = TRUE
  /\ going' = IF Time[1] < 59 THEN <<1>> ELSE IF Time[2] < 59 THEN <<1, 2>> ELSE <<1, 2, 3>>
  /\ UNCHANGED <<regs, bcd, tpc, t1, t2, shown>>

Update ==
  /\ uip
  /\ IF going = <<>>
     THEN uip' = FALSE /\ shown' = shown \union {Time} /\ UNCHANGED <<regs, going>>
     ELSE LET i == Head(going) IN
          /\ regs' = [regs EXCEPT ![i] = LET v == (Conv(@) + 1) % Limit[i] IN IF bcd THEN Bcd(v) ELSE v]
          /\ going' = Tail(going) /\ UNCHANGED <<uip, shown>>
  /\ UNCHANGED <<seconds, bcd, tpc, t1, t2>>

\* status register B tells whether the numbers are decimal
Cmostime ==
  /\ tpc = "idle" /\ tpc' = "first" /\ shown' = IF uip THEN {} ELSE {Time}
  /\ bcd' \in BOOLEAN
  /\ regs' = [i \in 1..3 |-> IF bcd' THEN regs[i] ELSE Conv(regs[i])]
  /\ UNCHANGED <<uip, going, seconds, t1, t2>>

\* fill_rtcdate: a register at a time
Fill ==
  /\ \/ tpc = "first"  /\ Len(t1) < 3 /\ t1' = Append(t1, regs[Len(t1) + 1]) /\ UNCHANGED t2
     \/ tpc = "second" /\ Len(t2) < 3 /\ t2' = Append(t2, regs[Len(t2) + 1]) /\ UNCHANGED t1
  /\ UNCHANGED <<regs, uip, going, seconds, bcd, tpc, shown>>

Check ==
  /\ tpc = "first" /\ Len(t1) = 3
  /\ IF uip THEN t1' = <<>> /\ UNCHANGED tpc ELSE tpc' = "second" /\ UNCHANGED t1
  /\ UNCHANGED <<regs, uip, going, seconds, bcd, t2, shown>>

\* memcmp (mutant: the seconds only)
BadAgree == t1[1] = t2[1]
Agree == t1 = t2
Compare ==
  /\ tpc = "second" /\ Len(t2) = 3
  /\ IF Agree THEN tpc' = "done" /\ t1' = [i \in 1..3 |-> Conv(t1[i])] /\ UNCHANGED t2
              ELSE tpc' = "first" /\ t1' = <<>> /\ t2' = <<>>
  /\ UNCHANGED <<regs, uip, going, seconds, bcd, shown>>

Next == Second \/ Update \/ Cmostime \/ Fill \/ Check \/ Compare

Spec == Init /\ [][Next]_rtcvars

-----------------------------------------------------------------------------

\* cmostime returns a time that the clock showed while the call ran, never one put
\* together from two.
GenuineTime == tpc = "done" => t1 \in shown
=============================================================================
