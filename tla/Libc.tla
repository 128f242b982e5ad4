-------------------------------- MODULE Libc --------------------------------
(***************************************************************************)
(* The string functions of the kernel (string.c) and of user programs      *)
(* (ulib.c), and the two printfs (printf.c, console.c), as functions of    *)
(* their arguments, checked against what they promise.                     *)
(*                                                                         *)
(* A memory is a function from addresses 0..MEM - 1 to characters, 0 being *)
(* the NUL; a state holds one memory, one format and one argument, and the *)
(* properties quantify over addresses and lengths.  An int has the values  *)
(* of INTS possible ones, 2^32 in the code.                                *)
(***************************************************************************)
EXTENDS Integers, Sequences, SequencesExt

CONSTANTS MEM, CHARS, NEWLINE, DIRSIZ, INTS, Formats, NoMemory

VARIABLES mem, fmt, arg

lvars == <<mem, fmt, arg>>

Addr == 0..MEM - 1
Init == mem = NoMemory /\ fmt = <<>> /\ arg = 0

-----------------------------------------------------------------------------
(* string.c and ulib.c.                                                    *)

Forward(m, d, s, n) ==
  LET after[k \in 0..n] ==
        IF k = 0 THEN m ELSE [after[k - 1] EXCEPT ![d + k - 1] = after[k - 1][s + k - 1]]
  IN after[n]

Backward(m, d, s, n) ==
  LET after[k \in 0..n] ==
        IF k = 0 THEN m ELSE [after[k - 1] EXCEPT ![d + n - k] = after[k - 1][s + n - k]]
  IN after[n]

\* memmove of the kernel (mutant: that of ulib.c), and of ulib.c
BadMemmove(m, d, s, n) == Forward(m, d, s, n)
Memmove(m, d, s, n)  == IF s < d /\ s + n > d THEN Backward(m, d, s, n) ELSE Forward(m, d, s, n)
UMemmove(m, d, s, n) == Forward(m, d, s, n)

\* how many characters the loop of strncpy copies, the NUL included
Copied(m, t, n) ==
  LET nul == {k \in 0..n - 1 : t + k \in Addr /\ m[t + k] = 0}
  IN IF nul = {} THEN n ELSE 1 + (CHOOSE k \in nul : \A j \in nul : k <= j)

\* strncpy (mutant: what follows the NUL is left as it was)
BadPad(m, s, k, n) == m
Pad(m, s, k, n) == [a \in Addr |-> IF a \in s + k..s + n - 1 THEN 0 ELSE m[a]]
Strncpy(m, s, t, n) ==
  LET k == Copied(m, t, n) IN Pad(Forward(m, s, t, k), s, k, n)

\* the last place is kept for the NUL (mutant: is not)
BadRoom(n) == n
Room(n) == n - 1
Safestrcpy(m, s, t, n) ==
  LET k == Copied(m, t, Room(n)) IN
  IF n <= 0 THEN m ELSE [Forward(m, s, t, k) EXCEPT ![s + k] = 0]

\* memcmp, strncmp, strcmp: the difference of the first characters that differ
Memcmp(m, p, q, n) ==
  LET D == {k \in 0..n - 1 : m[p + k] # m[q + k]}
      k == CHOOSE i \in D : \A j \in D : i <= j
  IN IF D = {} THEN 0 ELSE m[p + k] - m[q + k]
Strncmp(m, p, q, n) ==
  LET E == {k \in 0..n - 1 : {p + k, q + k} \subseteq Addr /\ (m[p + k] = 0 \/ m[p + k] # m[q + k])}
      k == CHOOSE i \in E : \A j \in E : i <= j
  IN IF E = {} THEN 0 ELSE m[p + k] - m[q + k]
Strlen(m, s) ==
  LET Z == {k \in 0..MEM - 1 - s : m[s + k] = 0} IN CHOOSE i \in Z : \A j \in Z : i <= j

\* ulib.c: strcpy, strcmp, and strchr, MEM when it finds nothing
Strcpy(m, s, t) == Forward(m, s, t, Strlen(m, t) + 1)
Strcmp(m, p, q) == Strncmp(m, p, q, MEM)
\* (mutant: looks at the NUL and beyond)
BadBefore(m, s) == MEM - s
Before(m, s) == Strlen(m, s)
Strchr(m, s, c) ==
  LET F == {a \in s..s + Before(m, s) - 1 : m[a] = c} IN IF F = {} THEN MEM ELSE CHOOSE a \in F : \A b \in F : a <= b

\* gets: what a call with max leaves in the buffer, when the characters of in are typed;
\* the NUL behind it needs a place (mutant: is not counted)
BadFits(i, max) == i < max
Fits(i, max) == i + 1 < max
Gets(in, max) ==
  LET read[i \in 0..Len(in)] ==
        IF i = Len(in) \/ ~Fits(i, max) THEN <<>>
        ELSE <<in[i + 1]>> \o (IF in[i + 1] = NEWLINE THEN <<>> ELSE read[i + 1])
  IN read[0]

Terminated(m, s) == \E a \in s..MEM - 1 : m[a] = 0

-----------------------------------------------------------------------------
(* Printing.  A printed text is a sequence of digits and other characters. *)

Unsigned(x) == x % INTS

\* the loop over x % base (mutant: x / base is tested before the digit is kept)
BadDigits(x, base) ==
  LET rest[v \in 0..x] == IF v = 0 THEN <<>> ELSE Append(rest[v \div base], v % base)
  IN rest[x]
Digits(x, base) ==
  LET rest[v \in 0..x] ==
        IF v < base THEN <<v>> ELSE Append(rest[v \div base], v % base)
  IN rest[x]

\* printint of printf.c, with neg
PrintInt(xx, base, sgn) ==
  IF sgn /\ xx < 0 THEN <<"-">> \o Digits(Unsigned(-xx), base) ELSE Digits(Unsigned(xx), base)

\* printint of console.c, which keeps the answer in its parameter sign
KPrintInt(xx, base, sign) ==
  LET neg == sign /\ xx < 0
      x == IF neg THEN Unsigned(-xx) ELSE Unsigned(xx)
  IN (IF neg THEN <<"-">> ELSE <<>>) \o Digits(x, base)

\* printf: a state machine over the format (mutant: the state is not reset after an
\* unknown letter)
BadReset(ch) == ch \in {"d", "x", "p", "c", "%"}
Reset(ch) == TRUE
Printf(f, a) ==
  LET run[i \in 0..Len(f)] ==                  \* printed, state, next argument
        IF i = 0 THEN [out |-> <<>>, percent |-> FALSE, next |-> a]
        ELSE LET r == run[i - 1] ch == f[i] IN
             CASE ~r.percent /\ ch = "%" -> [r EXCEPT !.percent = TRUE]
               [] ~r.percent /\ ch # "%" -> [r EXCEPT !.out = Append(@, ch)]
               [] r.percent ->
                    LET some == [r EXCEPT !.percent = ~Reset(ch), !.next = @ + 1]
                        none == [r EXCEPT !.percent = ~Reset(ch)]
                    IN CASE ch = "d" -> [some EXCEPT !.out = @ \o PrintInt(r.next, 10, TRUE)]
                         [] ch \in {"x", "p"} -> [some EXCEPT !.out = @ \o PrintInt(r.next, 16, FALSE)]
                         [] ch = "c" -> [some EXCEPT !.out = Append(@, r.next)]
                         [] ch = "%" -> [none EXCEPT !.out = Append(@, ch)]
                         [] OTHER -> [none EXCEPT !.out = @ \o <<"%", ch>>]
  IN run[Len(f)].out

\* cprintf: takes the letter after a % at once; a % at the end prints nothing.  (The value
\* at i is for the rest of the format from i on, with the next argument.)
Cprintf(f, a) ==
  LET rest[i \in 1..Len(f) + 2, v \in a..a + Len(f)] ==
        IF i > Len(f) THEN <<>>
        ELSE IF f[i] # "%" THEN <<f[i]>> \o rest[i + 1, v]
        ELSE IF i = Len(f) THEN <<>>
        ELSE CASE f[i + 1] = "d" -> KPrintInt(v, 10, TRUE) \o rest[i + 2, v + 1]
               [] f[i + 1] \in {"x", "p"} -> KPrintInt(v, 16, FALSE) \o rest[i + 2, v + 1]
               [] f[i + 1] = "%" -> <<"%">> \o rest[i + 2, v]
               [] OTHER -> <<"%", f[i + 1]>> \o rest[i + 2, v]
  IN rest[1, a]

\* atoi: as far as there are digits
Atoi(s) ==
  LET stop == {i \in DOMAIN s : s[i] \notin 0..9}
      last == IF stop = {} THEN Len(s) ELSE (CHOOSE i \in stop : \A j \in stop : i <= j) - 1
      n[i \in 0..last] == IF i = 0 THEN 0 ELSE Unsigned(n[i - 1] * 10 + s[i])
  IN n[last]

-----------------------------------------------------------------------------

TryMemory == mem = NoMemory /\ fmt = <<>> /\ mem' \in [Addr -> CHARS] /\ UNCHANGED <<fmt, arg>>
TryFormat ==
  /\ mem = NoMemory /\ fmt = <<>>
  /\ fmt' \in Formats /\ arg' \in -(INTS \div 2)..INTS \div 2 - 1 - Len(fmt')
  /\ UNCHANGED mem

Next == TryMemory \/ TryFormat

Spec == Init /\ [][Next]_lvars

-----------------------------------------------------------------------------

\* The kernel's memmove moves every piece of memory as it was, also onto itself; that of
\* the user library, which only goes forward, does when it moves towards lower addresses,
\* as grep does.
Moved ==
  mem # NoMemory =>
    \A n \in 0..MEM, d, s \in Addr : d + n <= MEM /\ s + n <= MEM =>
      LET meant == [a \in Addr |-> IF a \in d..d + n - 1 THEN mem[s + a - d] ELSE mem[a]]
      IN /\ Memmove(mem, d, s, n) = meant
         /\ d <= s \/ s + n <= d => UMemmove(mem, d, s, n) = meant

\* A name that dirlink puts into an entry with strncpy, without a NUL when it is long, is
\* found there by dirlookup with strncmp exactly when the two names agree in their first
\* DIRSIZ characters, whatever was in the entry before.
NameFound ==
  mem # NoMemory =>
    \A s, t, q \in Addr :
      Terminated(mem, t) /\ Terminated(mem, q) /\ s + DIRSIZ <= t /\ s + DIRSIZ <= q =>
        LET Upto(a) == LET n == Strlen(mem, a) IN
                       SubSeq([k \in 1..n |-> mem[a + k - 1]], 1, IF n < DIRSIZ THEN n ELSE DIRSIZ)
            filled == Strncpy(mem, s, t, DIRSIZ)
        IN /\ Strncmp(filled, q, s, DIRSIZ) = 0 <=> Upto(q) = Upto(t)
           /\ \A a \in Addr : a \notin s..s + DIRSIZ - 1 => filled[a] = mem[a]
           /\ Terminated(mem, t) /\ Strlen(mem, t) < DIRSIZ
                => \A a \in s + Strlen(mem, t)..s + DIRSIZ - 1 : filled[a] = 0

\* safestrcpy always leaves a terminated prefix of the source and never writes outside the
\* n characters it is given.
SafelyCopied ==
  mem # NoMemory =>
    \A s, t \in Addr, n \in 0..MEM - 1 : Terminated(mem, t) /\ s + n <= t =>
      LET r == Safestrcpy(mem, s, t, n) IN
      /\ \A a \in Addr : a \notin s..s + n - 1 => r[a] = mem[a]
      /\ n > 0 => /\ \E a \in s..s + n - 1 : r[a] = 0
                  /\ Strncmp(r, s, t, Strlen(r, s)) = 0
                  /\ Strlen(r, s) = Strlen(mem, t) \/ Strlen(r, s) = n - 1

\* strcpy makes a string that strcmp finds equal and writes nothing else; strchr finds the
\* first place of a character in the string, and none behind its end.
StringsAgree ==
  mem # NoMemory =>
    \A s, t \in Addr : Terminated(mem, t) /\ s + Strlen(mem, t) < t =>
      LET r == Strcpy(mem, s, t) IN
      /\ Strcmp(r, s, t) = 0
      /\ \A a \in Addr : a < s \/ a > s + Strlen(mem, t) => r[a] = mem[a]
      /\ \A c \in CHARS \ {0} :
           IF \E i \in 0..Strlen(r, s) - 1 : r[s + i] = c
           THEN r[Strchr(r, s, c)] = c /\ \A a \in s..Strchr(r, s, c) - 1 : r[a] # c
           ELSE Strchr(r, s, c) = MEM

\* Calls of gets, one after the other, lose and double no character of what is typed: each
\* leaves a line or fills the buffer, whose last place is for the NUL.
LinesKept ==
  mem # NoMemory =>
    \A max \in 2..MEM :
      LET typed == [i \in 1..MEM |-> mem[i - 1]]
          call[from \in 1..MEM + 1] ==
            IF from > MEM THEN <<>>
            ELSE LET l == Gets(SubSeq(typed, from, MEM), max) IN <<l>> \o call[from + Len(l)]
      IN /\ FlattenSeq(call[1]) = typed
         /\ \A k \in DOMAIN call[1] : LET l == call[1][k] IN
              /\ Len(l) < max
              /\ \A i \in 1..Len(l) - 1 : l[i] # NEWLINE
              /\ k < Len(call[1]) => l[Len(l)] = NEWLINE \/ Len(l) = max - 1

\* The kernel and the user library print the same for every format both understand (%c is
\* the user library's alone), also one that ends in a % or has an unknown letter.
PrintAlike ==
  (\A i \in DOMAIN fmt : fmt[i] # "c") => Printf(fmt, arg) = Cprintf(fmt, arg)

\* What printf prints for a number is that number: atoi reads it back, and of a negative
\* one, the least included, what follows the sign.
NumbersReadBack ==
  LET s == PrintInt(arg, 10, TRUE) IN
  fmt # <<>> =>
  /\ s # <<>>
  /\ arg >= 0 => Atoi(s) = arg
  /\ arg < 0 => Head(s) = "-" /\ Atoi(Tail(s)) = Unsigned(-arg)
=============================================================================
