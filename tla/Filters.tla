------------------------------ MODULE Filters -------------------------------
(***************************************************************************)
(* The user programs grep.c, wc.c and ls.c, one of which is run.  A text   *)
(* is a sequence of characters; a file gives as many of them as read()     *)
(* asks for, a pipe may give fewer, and the loops carry what is left of a  *)
(* line, or the state of being in a word, from one buffer to the next.     *)
(* The matcher is checked against a definition of what its patterns mean.  *)
(* ls reads a directory while another process may unlink its entries; an   *)
(* entry is a name, or <<>> when it is free.                               *)
(*                                                                         *)
(* BUF is the size of grep's buffer, WCBUF of wc's and BUFSIZE of ls's;    *)
(* Texts, Patterns, Paths and Directories are the inputs tried.            *)
(***************************************************************************)
EXTENDS Naturals, Sequences, SequencesExt

CONSTANTS BUF, WCBUF, Texts, Patterns, DIRSIZ, BUFSIZE, Paths, Directories

VARIABLES
  job, buf, printed,               \* the program, its buffer (of ls: up to p) and its lines
  source, text, pattern, unread,   \* "file" or "pipe", input and argument, what read() has still to give
  l, w, c, inword,                 \* wc
  path, entries, kind,             \* ls: the argument, the directory, what the argument is
  lpc, off, read                   \* where ls is, its offset in the directory, and the name it has read

textvars == <<source, text, pattern, unread, l, w, c, inword>>
lsvars   == <<path, entries, kind, lpc, off, read>>
fvars    == <<job, buf, printed, textvars, lsvars>>

NL == "newline"
Blanks == {" ", NL}

Init ==
  /\ job = "none" /\ source = "file" /\ text = <<>> /\ pattern = <<>> /\ unread = <<>>
  /\ buf = <<>> /\ printed = <<>>
  /\ l = 0 /\ w = 0 /\ c = 0 /\ inword = FALSE
  /\ path = <<>> /\ entries = <<>> /\ kind = "none" /\ lpc = "start" /\ off = 0 /\ read = <<>>

-----------------------------------------------------------------------------
(* Kernighan and Pike's matcher.                                           *)

RECURSIVE MatchHere(_, _), MatchStar(_, _, _)

IsOne(re, ch) == re = "." \/ re = ch

\* a star matches nothing first, then one more character after the other (mutant: at
\* least one)
BadMatchStar(re, rest, txt) ==
  txt # <<>> /\ IsOne(re, Head(txt)) /\ (MatchHere(rest, Tail(txt)) \/ MatchStar(re, rest, Tail(txt)))
MatchStar(re, rest, txt) ==
  \/ MatchHere(rest, txt)
  \/ txt # <<>> /\ IsOne(re, Head(txt)) /\ MatchStar(re, rest, Tail(txt))

MatchHere(re, txt) ==
  CASE re = <<>> -> TRUE
    [] Len(re) > 1 /\ re[2] = "*" -> MatchStar(re[1], SubSeq(re, 3, Len(re)), txt)
    [] re = <<"$">> -> txt = <<>>
    [] OTHER -> txt # <<>> /\ IsOne(re[1], txt[1]) /\ MatchHere(Tail(re), Tail(txt))

Match(re, txt) ==
  IF re # <<>> /\ re[1] = "^"
  THEN MatchHere(Tail(re), txt)
  ELSE \E i \in 1..Len(txt) + 1 : MatchHere(re, SubSeq(txt, i, Len(txt)))

-----------------------------------------------------------------------------
(* What a pattern means: its parts take consecutive pieces of the text.    *)

RECURSIVE Parts(_)
Parts(re) ==
  CASE re = <<>> -> <<>>
    [] Len(re) > 1 /\ re[2] = "*" ->
         <<[of |-> re[1], kind |-> "star"]>> \o Parts(SubSeq(re, 3, Len(re)))
    [] re = <<"$">> -> <<[of |-> "$", kind |-> "end"]>>
    [] OTHER -> <<[of |-> re[1], kind |-> "one"]>> \o Parts(Tail(re))

\* cut[i] is where the piece of part i begins
Meant(re, txt) ==
  LET anchored == re # <<>> /\ re[1] = "^"
      parts == Parts(IF anchored THEN Tail(re) ELSE re)
  IN \E cut \in [1..Len(parts) + 1 -> 1..Len(txt) + 1] :
       /\ anchored => cut[1] = 1
       /\ \A i \in DOMAIN parts :
            /\ cut[i] <= cut[i + 1]
            /\ \A k \in cut[i]..cut[i + 1] - 1 : IsOne(parts[i].of, txt[k])
            /\ parts[i].kind = "one" => cut[i + 1] = cut[i] + 1
            /\ parts[i].kind = "end" => cut[i] = Len(txt) + 1 /\ cut[i + 1] = cut[i]

-----------------------------------------------------------------------------

\* the lines that a newline ends, and what follows the last of them
Cuts(s)  == SelectSeq([i \in DOMAIN s |-> IF s[i] = NL THEN i ELSE 0], LAMBDA i : i > 0)
Lines(s) ==
  [k \in DOMAIN Cuts(s) |-> SubSeq(s, (IF k = 1 THEN 0 ELSE Cuts(s)[k - 1]) + 1, Cuts(s)[k] - 1)]
Rest(s)  == IF Cuts(s) = <<>> THEN s ELSE SubSeq(s, Last(Cuts(s)) + 1, Len(s))

Start ==
  /\ job = "none" /\ job' \in {"grep", "wc"} /\ source' \in {"file", "pipe"}
  /\ text' \in Texts /\ unread' = text'
  /\ IF job' = "grep" THEN pattern' \in Patterns ELSE UNCHANGED pattern
  /\ UNCHANGED <<buf, printed, l, w, c, inword, lsvars>>

\* read(): all that is asked for, or, from a pipe, less of it
Given(size) ==
  LET most == IF Len(unread) < size THEN Len(unread) ELSE size
  IN IF source = "file" THEN {most} ELSE (IF most = 0 THEN 0 ELSE 1)..most

\* the lines found in the buffer; the rest is kept when there was one, but a buffer without
\* a newline is thrown away (mutants: a line is cut at the buffer's end; read() may take
\* the place of the final NUL)
BadKept(s) == <<>>
Kept(s) == IF Cuts(s) = <<>> THEN <<>> ELSE Rest(s)
Grep ==
  /\ job = "grep"
  /\ \E n \in Given(BUF - Len(buf) - 1) :
       IF n = 0 THEN job' = "done grep" /\ UNCHANGED <<unread, buf, printed>>
       ELSE LET s == buf \o SubSeq(unread, 1, n) IN
            /\ printed' = printed \o SelectSeq(Lines(s), LAMBDA line : Match(pattern, line))
            /\ buf' = Kept(s) /\ unread' = SubSeq(unread, n + 1, Len(unread))
            /\ UNCHANGED job
  /\ UNCHANGED <<source, text, pattern, l, w, c, inword, lsvars>>

\* a word begins at a character that is no blank and has none before it in the word's state
Begins(s, i, in) == s[i] \notin Blanks /\ (IF i = 1 THEN ~in ELSE s[i - 1] \in Blanks)

\* inword, at the start of a buffer (mutant: a new buffer starts out of a word)
BadInside == FALSE
Inside == inword
Wc ==
  /\ job = "wc"
  /\ \E n \in Given(WCBUF) :
       IF n = 0 THEN job' = "done wc" /\ UNCHANGED <<unread, l, w, c, inword>>
       ELSE LET s == SubSeq(unread, 1, n) IN
            /\ c' = c + n
            /\ l' = l + Len(Cuts(s))
            /\ w' = w + Len(SelectSeq([i \in DOMAIN s |-> Begins(s, i, Inside)], LAMBDA b : b))
            /\ inword' = (Last(s) \notin Blanks)
            /\ unread' = SubSeq(unread, n + 1, Len(unread)) /\ UNCHANGED job
  /\ UNCHANGED <<source, text, pattern, buf, printed, lsvars>>

-----------------------------------------------------------------------------
(* ls on one argument.                                                     *)

\* open and fstat
Open ==
  /\ job = "none" /\ path' \in Paths /\ kind' \in {"file", "dir", "missing"}
  /\ entries' \in (IF kind' = "dir" THEN Directories ELSE {<<>>})
  /\ job' = "ls" /\ lpc' = (IF kind' = "missing" THEN "done" ELSE "opened")
  /\ UNCHANGED <<off, buf, read, printed, textvars>>

\* fmtname: what is behind the last slash, padded (mutant: without the slash's own place)
BadBase(p) == IF Contains(p, "/") THEN SubSeq(p, SelectLastInSeq(p, LAMBDA ch : ch = "/"), Len(p)) ELSE p
Base(p) == SubSeq(p, SelectLastInSeq(p, LAMBDA ch : ch = "/") + 1, Len(p))
Fmtname(p) == Base(p) \o [i \in 1..(IF Len(Base(p)) < DIRSIZ THEN DIRSIZ - Len(Base(p)) ELSE 0) |-> " "]

\* strlen(path) + 1 + DIRSIZ + 1 > sizeof buf (mutant: without the NUL)
BadTooLong == Len(path) + 1 + DIRSIZ > BUFSIZE
TooLong == Len(path) + 1 + DIRSIZ + 1 > BUFSIZE

File == lpc = "opened" /\ kind = "file" /\ printed' = <<Fmtname(path)>> /\ lpc' = "done"
        /\ UNCHANGED <<job, path, entries, kind, off, buf, read, textvars>>

Directory ==
  /\ lpc = "opened" /\ kind = "dir"
  /\ IF TooLong THEN printed' = <<<<"path too long">>>> /\ lpc' = "done" /\ UNCHANGED buf
     ELSE buf' = path \o <<"/">> /\ lpc' = "read" /\ UNCHANGED printed
  /\ UNCHANGED <<job, path, entries, kind, off, read, textvars>>

\* read of one entry, and memmove behind the slash; a free one is passed over (mutant: is
\* listed too)
BadSkipped(name) == FALSE
Skipped(name) == name = <<>>

ReadEntry ==
  /\ lpc = "read"
  /\ IF off = Len(entries) THEN lpc' = "done" /\ UNCHANGED <<off, read>>
     ELSE /\ off' = off + 1 /\ read' = entries[off + 1]
          /\ lpc' = IF Skipped(entries[off + 1]) THEN "read" ELSE "stat"
  /\ UNCHANGED <<job, path, entries, kind, buf, printed, textvars>>

\* stat goes by the name; it fails when that has been unlinked
Stat ==
  /\ lpc = "stat" /\ lpc' = "read"
  /\ printed' = Append(printed, IF Contains(entries, read) THEN Fmtname(buf \o read) ELSE <<"cannot stat">>)
  /\ UNCHANGED <<job, path, entries, kind, off, buf, read, textvars>>

\* the other process, which cannot unlink the entries of the dots
Unlink(i) ==
  /\ kind = "dir" /\ lpc # "done" /\ i > 2 /\ entries[i] # <<>> /\ entries' = [entries EXCEPT ![i] = <<>>]
  /\ UNCHANGED <<job, path, kind, lpc, off, buf, read, printed, textvars>>

Ls == Open \/ File \/ Directory \/ ReadEntry \/ Stat \/ \E i \in DOMAIN entries : Unlink(i)

Next == Start \/ Grep \/ Wc \/ Ls

Spec == Init /\ [][Next]_fvars

-----------------------------------------------------------------------------

\* grep's matcher finds a line exactly when the pattern's parts can be laid over it.
MatchAsMeant ==
  \A i \in DOMAIN Lines(text) :
    job = "grep" => (Match(pattern, Lines(text)[i]) <=> Meant(pattern, Lines(text)[i]))

\* Of a file whose lines fit into the buffer, grep prints exactly the lines that match, in
\* their order, wherever the buffers begin and end.  (From a pipe it loses the beginning of
\* a line that comes in pieces, and what follows the last newline is never a line.)
GrepPrintsMatches ==
  LET fits == \A i \in DOMAIN Lines(text) : Len(Lines(text)[i]) < BUF - 1
  IN job = "done grep" /\ source = "file" /\ fits
       => printed = SelectSeq(Lines(text), LAMBDA line : Match(pattern, line))

\* wc counts what is in the text, however read() cuts it.
WcCounts ==
  job = "done wc" =>
    /\ c = Len(text) /\ l = Len(Cuts(text))
    /\ w = Len(SelectSeq([i \in DOMAIN text |-> Begins(text, i, FALSE)], LAMBDA b : b))

\* ls: the name that is put behind the path, of up to DIRSIZ characters, and its NUL fit into
\* the buffer.
BufferHolds == job = "ls" /\ buf # <<>> => Len(buf) + DIRSIZ + 1 <= BUFSIZE

\* Every entry that is in the directory when ls ends has been listed with its own name,
\* padded with blanks, whatever was removed meanwhile; and nothing was listed twice.
AllListed ==
  job = "ls" /\ lpc = "done" /\ buf # <<>> =>
    /\ \A i \in DOMAIN entries : entries[i] # <<>> =>
         \E line \in ToSet(printed) : Len(line) = DIRSIZ /\ IsPrefix(entries[i], line)
                                 /\ \A k \in Len(entries[i]) + 1..DIRSIZ : line[k] = " "
    /\ Len(printed) <= Len(entries)
    /\ \A i, j \in DOMAIN printed : i # j /\ printed[i] = printed[j] => printed[i] = <<"cannot stat">>
=============================================================================
