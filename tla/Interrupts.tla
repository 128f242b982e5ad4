----------------------------- MODULE Interrupts -----------------------------
(***************************************************************************)
(* The interrupt controllers (ioapic.c, lapic.c) and the interrupt branch  *)
(* of trap.c: how the boot CPU routes the devices, how a CPU takes an      *)
(* interrupt and acknowledges it, while devices go on raising more.        *)
(*                                                                         *)
(* A device has up to MaxData bytes (or disk blocks) to hand over; its     *)
(* line is high while it has any, and the I/O APIC sees only the edge from *)
(* low to high.  All vectors in use are of one priority class, so a local  *)
(* APIC holds everything back while one is in service.  ApicIds[c] is the  *)
(* APIC id of cpus[c - 1].                                                 *)
(***************************************************************************)
EXTENDS Naturals, Sequences, FiniteSets

CONSTANTS NCPU, ApicIds, MaxData

CPUS == 1..NCPU
Devices == {"kbd", "com1", "ide"}
Irqs == Devices \cup {"timer"}

VARIABLES
  step,                      \* of the boot CPU's main
  enabled, dest,             \* I/O APIC: routed devices, and the APIC id they go to
  lapicOn, irr, isr,         \* local APICs: on; vectors waiting, and in service
  mode, phase,               \* a CPU: "off", "boot", "on" (interrupts on) or the interrupt it handles; how far
  has, early                 \* a device's data; devices whose edge came before they were routed

ivars == <<step, enabled, dest, lapicOn, irr, isr, mode, phase, has, early>>

Boot == 1
Init ==
  /\ step = "lapicinit" /\ enabled = {} /\ dest = [d \in Devices |-> 0]
  /\ lapicOn = {} /\ irr = [c \in CPUS |-> {}] /\ isr = [c \in CPUS |-> {}]
  /\ mode = [c \in CPUS |-> IF c = Boot THEN "boot" ELSE "off"] /\ phase = [c \in CPUS |-> "serve"]
  /\ has = [d \in Devices |-> 0] /\ early = {}

-----------------------------------------------------------------------------
(* main, mpenter                                                           *)

Goes(to) == step' = to /\ UNCHANGED <<mode, phase>>

\* the last writes acknowledge what is in service and let interrupts in
Lapicinit(c) == lapicOn' = lapicOn \cup {c} /\ isr' = [isr EXCEPT ![c] = {}]

\* ioapicinit: every entry is disabled
Ioapicinit ==
  /\ step = "ioapicinit" /\ enabled' = {} /\ dest' = [d \in Devices |-> 0] /\ Goes("consoleinit")
  /\ UNCHANGED <<lapicOn, irr, isr, has, early>>

\* ioapicenable(irq, cpunum)
Enable(d, cpunum) == enabled' = enabled \cup {d} /\ dest' = [dest EXCEPT ![d] = cpunum]

Consoleinit ==
  /\ step = "consoleinit" /\ Enable("kbd", 0) /\ Goes("uartinit")
  /\ UNCHANGED <<lapicOn, irr, isr, has, early>>

\* uartinit: reads what has come before (mutant: does not), and enables the interrupt
BadDrained == has
Drained == [has EXCEPT !["com1"] = 0]
Uartinit ==
  /\ step = "uartinit" /\ has' = Drained /\ early' = early \ {"com1"} /\ Goes("uartenable")
  /\ UNCHANGED <<enabled, dest, lapicOn, irr, isr>>
Uartenable ==
  /\ step = "uartenable" /\ Enable("com1", 0) /\ Goes("ideinit")
  /\ UNCHANGED <<lapicOn, irr, isr, has, early>>

\* ideinit: the disk goes to the last CPU
Ideinit ==
  /\ step = "ideinit" /\ Enable("ide", NCPU - 1) /\ Goes("startothers")
  /\ UNCHANGED <<lapicOn, irr, isr, has, early>>

BootLapic ==
  /\ step = "lapicinit" /\ Lapicinit(Boot) /\ Goes("ioapicinit")
  /\ UNCHANGED <<enabled, dest, irr, has, early>>

\* startothers waits for each of them; mpenter is lapicinit and the scheduler
Ap(c) ==
  /\ step = "startothers" /\ mode[c] = "off" /\ Lapicinit(c)
  /\ mode' = [mode EXCEPT ![c] = "on"]
  /\ UNCHANGED <<step, enabled, dest, irr, phase, has, early>>

\* the scheduler of the boot CPU turns interrupts on
Scheduler ==
  /\ step = "startothers" /\ \A c \in CPUS : mode[c] # "off"
  /\ step' = "running" /\ mode' = [mode EXCEPT ![Boot] = "on"]
  /\ UNCHANGED <<enabled, dest, lapicOn, irr, isr, phase, has, early>>

Main == BootLapic \/ Ioapicinit \/ Consoleinit \/ Uartinit \/ Uartenable \/ Ideinit \/ Scheduler

-----------------------------------------------------------------------------
(* The hardware.  The disk has data only when the kernel has asked for some. *)

Target(d) == {c \in lapicOn : ApicIds[c] = dest[d]}

Arrive(d) ==
  /\ has[d] < (IF d = "ide" THEN 1 ELSE MaxData) /\ (d = "ide" => step = "running")
  /\ has' = [has EXCEPT ![d] = @ + 1]
  /\ irr' = [c \in CPUS |-> IF has[d] = 0 /\ d \in enabled /\ c \in Target(d) THEN irr[c] \cup {d} ELSE irr[c]]
  /\ early' = IF has[d] = 0 /\ d \notin enabled THEN early \cup {d} ELSE early
  /\ UNCHANGED <<step, enabled, dest, lapicOn, isr, mode, phase>>

Tick(c) ==
  /\ c \in lapicOn /\ "timer" \notin irr[c] /\ irr' = [irr EXCEPT ![c] = @ \cup {"timer"}]
  /\ UNCHANGED <<step, enabled, dest, lapicOn, isr, mode, phase, has, early>>

\* the CPU takes an interrupt, through a gate that turns them off
Take(c) ==
  /\ mode[c] = "on" /\ isr[c] = {}
  /\ \E v \in irr[c] :
       /\ irr' = [irr EXCEPT ![c] = @ \ {v}] /\ isr' = [isr EXCEPT ![c] = {v}]
       /\ mode' = [mode EXCEPT ![c] = v] /\ phase' = [phase EXCEPT ![c] = "serve"]
  /\ UNCHANGED <<step, enabled, dest, lapicOn, has, early>>

-----------------------------------------------------------------------------
(* trap                                                                    *)

\* consoleintr takes characters until there are none, ideintr one block (mutant: one
\* character)
BadServed(d) == TRUE
Served(d) == d = "ide" \/ has[d] = 0

Serve(c) ==
  LET v == mode[c] IN
  /\ v \in Irqs /\ phase[c] = "serve"
  /\ has' = IF v \in Devices /\ has[v] > 0 THEN [has EXCEPT ![v] = @ - 1] ELSE has
  /\ phase' = [phase EXCEPT ![c] = IF v = "timer" \/ Served(v) THEN "eoi" ELSE "serve"]
  /\ UNCHANGED <<step, enabled, dest, lapicOn, irr, isr, mode, early>>

\* which branches call lapiceoi (mutant: the timer's does not)
BadAcknowledged == Devices
Acknowledged == Irqs

Eoi(c) ==
  LET v == mode[c] IN
  /\ v \in Irqs /\ phase[c] = "eoi"
  /\ isr' = IF v \in Acknowledged THEN [isr EXCEPT ![c] = {}] ELSE isr
  /\ mode' = [mode EXCEPT ![c] = "on"]
  /\ UNCHANGED <<step, enabled, dest, lapicOn, irr, phase, has, early>>

Next ==
  \/ Main \/ \E d \in Devices : Arrive(d)
  \/ \E c \in CPUS : Ap(c) \/ Tick(c) \/ Take(c) \/ Serve(c) \/ Eoi(c)

Spec == Init /\ [][Next]_ivars

-----------------------------------------------------------------------------

\* A CPU that is not handling an interrupt has acknowledged all of them: otherwise its
\* local APIC would hold back every later one.
NothingInService == \A c \in CPUS : mode[c] = "on" => isr[c] = {}

\* No device is forgotten: while it has data its interrupt waits at a CPU or is being
\* handled before the handler has looked for the last time, though it is only the edge
\* that counts.  (A device that raised its line before it was routed is lost.)
NoneForgotten ==
  \A d \in enabled \ early : has[d] > 0 =>
    \E c \in CPUS : d \in irr[c] \/ (mode[c] = d /\ phase[c] = "serve")
=============================================================================
