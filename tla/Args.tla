-------------------------------- MODULE Args --------------------------------
(***************************************************************************)
(* syscall.c: how a system call finds its number and arguments.  The       *)
(* number is in eax, the arguments are words above the user stack pointer, *)
(* which is whatever the process put there, and pointers and lengths among *)
(* them are checked against the size of the process.                       *)
(*                                                                         *)
(* A word has WORD bytes and addresses wrap at WRAP (4 and 2^32 in the     *)
(* code); a process has at most WRAP / 2 bytes (KERNBASE).  The memory is  *)
(* given by the argument word, if it lies inside, a NUL at one address,    *)
(* and other bytes that are neither.  Kernel is what the code reads above  *)
(* the process, which a check must never let it do.                        *)
(*                                                                         *)
(* Two calls of the assignments that fill a buffer of the user are here    *)
(* too: wolfie (Assignment-1), a text of WOLFIE bytes, and getProcInfo     *)
(* (Assignment-2/180050024), a struct of INFO bytes.                       *)
(***************************************************************************)
EXTENDS Integers, Sequences, FiniteSets, FiniteSetsExt

CONSTANTS WORD, WRAP, ProcSizes, Lengths, Implemented, Numbers, WOLFIE, INFO

VARIABLES
  sz, esp, eax, value, nul,   \* the process: size, registers, argument word, address of a NUL
  asked, got                  \* what the kernel looks for, and what it gets

avars == <<sz, esp, eax, value, nul, asked, got>>

Nothing == [ok |-> FALSE, reads |-> {}, at |-> 0, len |-> 0]

Init ==
  /\ sz = 0 /\ esp = 0 /\ eax = 0 /\ value = 0 /\ nul = 0
  /\ asked = [kind |-> "none", len |-> 0] /\ got = Nothing

-----------------------------------------------------------------------------

\* the address of argument n
Place(n) == (esp + WORD + WORD * n) % WRAP

\* fetchint: reads the word at addr (mutant: only its first byte is checked)
BadWordInside(addr) == addr < sz
WordInside(addr) == addr < sz /\ (addr + WORD) % WRAP <= sz

\* argptr: a block of len bytes at the address in the argument, with the sum as an
\* unsigned number; an int len of WRAP / 2 or more is negative (mutant: negative ones pass)
BadSane(len) == TRUE
Sane(len) == len < WRAP \div 2
BlockInside(a, len) == Sane(len) /\ a < sz /\ (a + len) % WRAP <= sz

\* fetchstr: reads up to the NUL, or to the end of the process (mutant: reads the byte
\* after it)
BadEnd == sz + 1
End == sz
StringReads(a) == IF nul >= a /\ nul < End THEN a..nul ELSE a..End - 1

Word(n) == IF WordInside(Place(n)) THEN {Place(n) + i : i \in 0..WORD - 1} ELSE {}

\* argint, argptr and argstr, of argument 0
ArgInt == [ok |-> Word(0) # {}, reads |-> Word(0), at |-> value, len |-> 0]

ArgPtr(len) ==
  IF Word(0) = {} THEN Nothing
  ELSE [ok |-> BlockInside(value, len), reads |-> Word(0), at |-> value, len |-> len]

ArgStr ==
  IF Word(0) = {} \/ value >= sz THEN [Nothing EXCEPT !.reads = Word(0)]
  ELSE [ok |-> nul >= value /\ nul < End, reads |-> Word(0) \union StringReads(value),
        at |-> value, len |-> nul - value]

\* sys_wolfie: argument 1 is the size of the buffer (mutant: it is not compared)
BadHolds(size) == TRUE
Holds(size) == WOLFIE <= size
Wolfie(size) ==
  IF Word(1) = {} \/ ~ArgPtr(size).ok THEN [Nothing EXCEPT !.reads = Word(0) \union Word(1)]
  ELSE [ok |-> Holds(size), reads |-> Word(0) \union Word(1), at |-> value, len |-> WOLFIE]

\* sys_getProcInfo, whose struct is argument 1 and pid argument 0
ProcInfo ==
  IF Word(0) = {} \/ Word(1) = {} THEN [Nothing EXCEPT !.reads = Word(0) \union Word(1)]
  ELSE [ok |-> BlockInside(value, INFO), reads |-> Word(0) \union Word(1), at |-> value, len |-> INFO]

\* syscall(): the number must be one of the table's, and its entry not empty (mutant: a
\* hole of the table is called)
BadKnown(n) == n > 0 /\ n <= Max(Implemented)
Known(n) == n > 0 /\ n <= Max(Implemented) /\ n \in Implemented

Fetch ==
  \/ asked' = [kind |-> "int", len |-> 0] /\ got' = ArgInt' /\ UNCHANGED nul
  \/ \E n \in Lengths :
       /\ \/ asked' = [kind |-> "ptr", len |-> n] /\ got' = ArgPtr(n)'
          \/ asked' = [kind |-> "wolfie", len |-> n] /\ got' = Wolfie(n)'
       /\ UNCHANGED nul
  \/ asked' = [kind |-> "info", len |-> INFO] /\ got' = ProcInfo' /\ UNCHANGED nul
  \/ nul' \in 0..Max(ProcSizes) /\ asked' = [kind |-> "str", len |-> 0] /\ got' = ArgStr'

Syscall ==
  /\ asked.kind = "none"
  /\ sz' \in ProcSizes /\ esp' \in 0..WRAP - 1 /\ value' \in 0..WRAP - 1
  /\ eax' = Min(Implemented)
  /\ Fetch

Dispatch ==
  /\ asked.kind = "none" /\ eax' \in Numbers
  /\ asked' = [kind |-> "call", len |-> 0]
  /\ got' = [Nothing EXCEPT !.ok = Known(eax')]
  /\ UNCHANGED <<sz, esp, value, nul>>

Next == Syscall \/ Dispatch

Spec == Init /\ [][Next]_avars

-----------------------------------------------------------------------------

\* Looking for an argument, the kernel reads no byte outside the process, wherever the
\* stack pointer points and however the sums wrap.
ReadsInside == got.reads \subseteq 0..sz - 1

\* A pointer that argptr accepts leads to len bytes inside the process, so that what the
\* kernel copies there or from there stays inside; a length is never negative.
BlocksInside ==
  got.ok /\ asked.kind \in {"ptr", "info"} =>
    /\ got.at + got.len <= sz
    /\ got.len < WRAP \div 2

\* wolfie writes only into the buffer it was given, which may be smaller than its text and
\* anywhere.
WolfieFits ==
  got.ok /\ asked.kind = "wolfie" => got.at + got.len <= sz /\ got.len <= asked.len

\* A string that argstr accepts ends inside the process, at its first NUL.
StringsEnd ==
  asked.kind = "str" =>
    /\ got.ok => got.at + got.len < sz /\ nul = got.at + got.len
    /\ ~got.ok /\ Word(0) # {} /\ value < sz => nul < value \/ nul >= sz

\* Only functions that exist are called.
CallsExist == asked.kind = "call" => (got.ok <=> eax \in Implemented)
=============================================================================
