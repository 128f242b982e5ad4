------------------------------- MODULE Loader -------------------------------
(***************************************************************************)
(* bootmain.c: the boot loader reads the kernel, an ELF file that starts   *)
(* in sector 1 of the disk, a whole sector at a time, and so writes more   *)
(* than a segment asks for, on both sides of it.                           *)
(*                                                                         *)
(* File is the image of a kernel: <<paddr, off, filesz, memsz>> for every  *)
(* segment, in the order of the program headers, and whether the magic     *)
(* number is right.  Byte i of the file is i, 0 when no segment has it.    *)
(***************************************************************************)
EXTENDS Integers, Sequences, FiniteSets

CONSTANTS SECTSIZE, MEMSIZE, Kernels

VARIABLES
  kernel,             \* the file
  lpc, ph,            \* where the loader is, and the program header it is at
  pa, offset,         \* locals of readseg
  ram

ldvars == <<kernel, lpc, ph, pa, offset, ram>>

Addr == 0..MEMSIZE - 1
Junk == -1
NoKernel == [magic |-> FALSE, segs |-> <<>>]

Init ==
  /\ kernel = NoKernel /\ lpc = "off" /\ ph = 1 /\ pa = 0 /\ offset = 0
  /\ ram = [a \in Addr |-> Junk]

Seg == kernel.segs[ph]
InSeg(s, i) == i >= s.off /\ i < s.off + s.filesz
Byte(i) == IF \E k \in DOMAIN kernel.segs : InSeg(kernel.segs[k], i) THEN i ELSE 0

-----------------------------------------------------------------------------

\* bootmain: the first page of the file has the headers
Start ==
  /\ lpc = "off" /\ kernel' \in Kernels
  /\ lpc' = IF kernel'.magic THEN "header" ELSE "refused"
  /\ UNCHANGED <<ph, pa, offset, ram>>

\* readseg: rounds down to a sector and counts sectors from 1 (mutant: leaves pa as it is)
BadDown(a, o) == a
Down(a, o) == a - (o % SECTSIZE)

Readseg ==
  /\ lpc = "header" /\ ph <= Len(kernel.segs)
  /\ pa' = Down(Seg.paddr, Seg.off) /\ offset' = Seg.off \div SECTSIZE + 1
  /\ lpc' = "sectors"
  /\ UNCHANGED <<kernel, ph, ram>>

\* readsect, until epa
Readsect ==
  /\ lpc = "sectors" /\ pa < Seg.paddr + Seg.filesz
  /\ ram' = [a \in Addr |-> IF a \in pa..pa + SECTSIZE - 1 THEN Byte((offset - 1) * SECTSIZE + a - pa) ELSE ram[a]]
  /\ pa' = pa + SECTSIZE /\ offset' = offset + 1
  /\ UNCHANGED <<kernel, lpc, ph>>

\* stosb: what the file does not have is zero
Zeroed == Seg.paddr + Seg.filesz..Seg.paddr + Seg.memsz - 1

Stosb ==
  /\ lpc = "sectors" /\ pa >= Seg.paddr + Seg.filesz
  /\ ram' = [a \in Addr |-> IF a \in Zeroed THEN 0 ELSE ram[a]]
  /\ ph' = ph + 1 /\ lpc' = "header"
  /\ UNCHANGED <<kernel, pa, offset>>

Entry ==
  /\ lpc = "header" /\ ph > Len(kernel.segs) /\ lpc' = "kernel"
  /\ UNCHANGED <<kernel, ph, pa, offset, ram>>

Next == Start \/ Readseg \/ Readsect \/ Stosb \/ Entry

Spec == Init /\ [][Next]_ldvars

-----------------------------------------------------------------------------

\* "We'd write more to memory than asked, but it doesn't matter -- we load in increasing
\* order": what a sector brings of the next segment or behind it is written again, so the
\* kernel is entered with every byte of every segment in its place, and zeros where the
\* file has none.
AllLoaded ==
  lpc = "kernel" =>
    /\ kernel.magic
    /\ \A k \in DOMAIN kernel.segs : LET s == kernel.segs[k] IN
         \A i \in 0..s.memsz - 1 : ram[s.paddr + i] = IF i < s.filesz THEN s.off + i ELSE 0
=============================================================================
