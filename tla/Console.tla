------------------------------ MODULE Console -------------------------------
(***************************************************************************)
(* console.c: the ring of typed characters with its read, write and edit   *)
(* index (input.r, input.w, input.e), the interrupt handler that edits it, *)
(* the readers, and the cursor of the screen.                              *)
(*                                                                         *)
(* The indices are unsigned and wrap at WRAP, 2^32 in the code.  What is   *)
(* done under cons.lock is one action, but for the moment between the test *)
(* of killed and the sleep ("dozing", lock held), in which a kill may      *)
(* land.  The screen has COLS columns and ROWS + 1 rows, 80 and 25.        *)
(***************************************************************************)
EXTENDS Naturals, Sequences, FiniteSets, FiniteSetsExt

CONSTANTS INPUT_BUF, WRAP, COLS, ROWS, Readers, Sizes, MaxTyped

Plain == {"a"}
Ends  == {"newline", "eof"}        \* \n (or \r), and control-D
Edits == {"kill", "erase"}         \* control-U, and control-H or delete

VARIABLES
  buf, r, w, e,                    \* input
  pos,                             \* of the cursor
  pc, left, target, killed,        \* consoleread: n and target
  typed, eofs, zeros               \* characters, accepted control-Ds, and reads that returned 0

cvars == <<buf, r, w, e, pos, pc, left, target, killed, typed, eofs, zeros>>

Init ==
  /\ buf = [i \in 0..INPUT_BUF - 1 |-> "a"] /\ r = 0 /\ w = 0 /\ e = 0 /\ pos = 0
  /\ pc = [p \in Readers |-> "user"] /\ left = [p \in Readers |-> 0] /\ target = left
  /\ killed = [p \in Readers |-> FALSE]
  /\ typed = 0 /\ eofs = 0 /\ zeros = 0

-----------------------------------------------------------------------------

Minus(i, j)  == (i + WRAP - j) % WRAP
Chars(i, j)  == [k \in 1..Minus(j, i) |-> buf[((i + k - 1) % WRAP) % INPUT_BUF]]
Line  == Chars(w, e)
Ready == Chars(r, w)

LockFree == \A p \in Readers : pc[p] # "dozing"

\* cgaputc: the cursor after c, and the scroll (mutant: the screen scrolls a row late)
BadScrolled(i) == IF i \div COLS > ROWS THEN i - COLS ELSE i
Scrolled(i) == IF i \div COLS >= ROWS THEN i - COLS ELSE i
After(i, c) == Scrolled(IF c = "newline" THEN i + COLS - (i % COLS) ELSE i + 1)
Back(i, n)  == IF i > n THEN i - n ELSE 0

\* wakeup(&input.r) (mutant: none)
BadWoken == pc
Woken == [p \in Readers |-> IF pc[p] = "asleep" THEN "reading" ELSE pc[p]]

\* consoleintr, on a character to keep; when the line is finished (mutant: a full ring
\* does not finish it)
BadFinished(c, n) == c \in Ends
Finished(c, n) == c \in Ends \/ n = (r + INPUT_BUF) % WRAP

Keep(c) ==
  LET n == (e + 1) % WRAP IN
  /\ Minus(e, r) < INPUT_BUF
  /\ buf' = [buf EXCEPT ![e % INPUT_BUF] = c] /\ e' = n /\ pos' = After(pos, c)
  /\ IF Finished(c, n) THEN w' = n /\ pc' = Woken ELSE UNCHANGED <<w, pc>>
  /\ eofs' = IF c = "eof" THEN eofs + 1 ELSE eofs
  /\ UNCHANGED r

\* how many characters control-U and backspace take back (mutant: past the line)
BadErased(c) == IF c = "kill" THEN Len(Line) ELSE 1
Erased(c) == IF c = "kill" THEN Len(Line) ELSE Min({1, Len(Line)})

Edit(c) ==
  /\ e' = Minus(e, Erased(c)) /\ pos' = Back(pos, Erased(c))
  /\ UNCHANGED <<buf, r, w, pc, eofs>>

Type(c) ==
  /\ LockFree /\ typed < MaxTyped /\ typed' = typed + 1
  /\ IF c \in Edits THEN Edit(c) ELSE Keep(c)
  /\ UNCHANGED <<left, target, killed, zeros>>

\* consolewrite
Write(c) ==
  /\ LockFree /\ typed < MaxTyped /\ typed' = typed + 1
  /\ pos' = After(pos, c)
  /\ UNCHANGED <<buf, r, w, e, pc, left, target, killed, eofs, zeros>>

-----------------------------------------------------------------------------
(* consoleread *)

ReadCall(p, n) ==
  /\ pc[p] = "user" /\ ~killed[p]
  /\ pc' = [pc EXCEPT ![p] = "reading"] /\ left' = [left EXCEPT ![p] = n] /\ target' = [target EXCEPT ![p] = n]
  /\ UNCHANGED <<buf, r, w, e, pos, killed, typed, eofs, zeros>>

\* where the loop breaks: at the first newline or control-D it comes to
Break(p) == LET at == {i \in 1..Min({left[p], Len(Ready)}) : Ready[i] \in Ends}
            IN IF at = {} THEN 0 ELSE Min(at)

\* a control-D behind other characters stays for the next call (mutant: it does not)
BadSaved(p, i) == FALSE
Saved(p, i) == i # 0 /\ Ready[i] = "eof" /\ (i > 1 \/ left[p] < target[p])

Return(p) ==
  /\ pc' = [pc EXCEPT ![p] = "user"]
  /\ left' = [left EXCEPT ![p] = 0] /\ target' = [target EXCEPT ![p] = 0]

Read(p) ==
  LET i == Break(p)
      k == IF Saved(p, i) THEN i - 1 ELSE IF i # 0 THEN i ELSE Min({left[p], Len(Ready)})
      data == IF i # 0 /\ Ready[i] = "eof" THEN i - 1 ELSE k       \* characters copied out
  IN
  /\ pc[p] = "reading" /\ LockFree /\ r # w
  /\ r' = (r + k) % WRAP
  /\ IF i # 0 \/ left[p] = data
     THEN /\ zeros' = IF left[p] - data = target[p] THEN zeros + 1 ELSE zeros
          /\ Return(p)
     ELSE left' = [left EXCEPT ![p] = @ - data] /\ UNCHANGED <<zeros, pc, target>>
  /\ UNCHANGED <<buf, w, e, pos, killed, typed, eofs>>

\* nothing to read: a killed process returns -1, any other goes to sleep
Empty(p) ==
  /\ pc[p] = "reading" /\ LockFree /\ r = w
  /\ IF killed[p] THEN Return(p) ELSE pc' = [pc EXCEPT ![p] = "dozing"] /\ UNCHANGED <<left, target>>
  /\ UNCHANGED <<buf, r, w, e, pos, killed, typed, eofs, zeros>>

Sleep(p) ==
  /\ pc[p] = "dozing" /\ pc' = [pc EXCEPT ![p] = "asleep"]
  /\ UNCHANGED <<buf, r, w, e, pos, left, target, killed, typed, eofs, zeros>>

Kill(p) ==
  /\ ~killed[p] /\ pc[p] # "user" /\ killed' = [killed EXCEPT ![p] = TRUE]
  /\ pc' = [pc EXCEPT ![p] = IF @ = "asleep" THEN "reading" ELSE @]
  /\ UNCHANGED <<buf, r, w, e, pos, left, target, typed, eofs, zeros>>

Next ==
  \/ \E c \in Plain \cup Ends \cup Edits : Type(c)
  \/ \E c \in Plain \cup {"newline"} : Write(c)
  \/ \E p \in Readers : (\E n \in Sizes : ReadCall(p, n)) \/ Read(p) \/ Empty(p) \/ Sleep(p) \/ Kill(p)

Spec == Init /\ [][Next]_cvars

-----------------------------------------------------------------------------
(* Properties *)

\* The line lies between the write and the edit index, the finished lines between the
\* read and the write index, and together they fit; the cursor is on the screen (cgaputc
\* panics "pos under/overflow"), behind every character that can still be erased.
TypeOK ==
  /\ {r, w, e} \subseteq 0..WRAP - 1 /\ Minus(w, r) + Minus(e, w) <= INPUT_BUF
  /\ pos < ROWS * COLS /\ pos >= Len(Line)
  /\ \A p \in Readers : left[p] <= target[p]

\* A ring with no room left has something to read: typing can always go on.
FullIsReadable == Minus(e, r) = INPUT_BUF => r # w

\* A reader sleeps only while there is nothing to read.
ReaderNotForgotten == \A p \in Readers : pc[p] = "asleep" => r = w

\* "Save ^D for next time, to make sure caller gets a 0-byte result": every control-D
\* that was typed and is not in the ring any more has made one read return 0.
EofSeenOnce == eofs = zeros + Cardinality({i \in 1..Len(Ready) : Ready[i] = "eof"})

T == INSTANCE Tty WITH Cap <- INPUT_BUF, line <- Line, ready <- Ready

\* Editing, wrapping indices and readers that share the ring: all is as with a line
\* buffer and a queue.
ImplementsTty == [][T!Next]_<<Line, Ready>>
=============================================================================
