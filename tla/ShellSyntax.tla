---------------------------- MODULE ShellSyntax -----------------------------
(***************************************************************************)
(* The commands of sh.c and its parser.  A line is a sequence of tokens:   *)
(* the symbols, and words.  The parser keeps where a word is in the line   *)
(* (the pointers into buf), and nulterminate cuts the words there.         *)
(* A panic of the parser ends the process: the result is Syntax.           *)
(***************************************************************************)
EXTENDS Naturals, Sequences, SequencesExt

CONSTANT MAXARGS

Symbols == {"<", ">", ">>", "|", "&", ";", "(", ")"}

Exec(a)         == [t |-> "exec", argv |-> a]
Redir(c, f, fd) == [t |-> "redir", cmd |-> c, file |-> f, fd |-> fd]
Pipe(l, r)      == [t |-> "pipe", left |-> l, right |-> r]
List(l, r)      == [t |-> "list", left |-> l, right |-> r]
Back(c)         == [t |-> "back", cmd |-> c]

Syntax == [c |-> Exec(<<>>), i |-> 0]

Peek(s, i, toks) == i \in 1..Len(s) /\ s[i] \in toks
Word(s, i)       == i \in 1..Len(s) /\ s[i] \notin Symbols

\* parseredirs: the redirections at i, in order
RECURSIVE Redirs(_, _, _)
Redirs(s, i, rs) ==
  IF ~Peek(s, i, {"<", ">", ">>"}) THEN [rs |-> rs, i |-> i]
  ELSE IF ~Word(s, i + 1) THEN [rs |-> rs, i |-> 0]
  ELSE Redirs(s, i + 2, Append(rs, [file |-> i + 1, fd |-> IF s[i] = "<" THEN 0 ELSE 1]))

Wrapped(c, rs) == FoldLeft(LAMBDA d, x : Redir(d, x.file, x.fd), c, rs)

RECURSIVE ParseLine(_, _), ParsePipe(_, _), Args(_, _, _, _)

\* the loop of parseexec, with the arguments and redirections so far
Args(s, i, argv, rs) ==
  IF i = 0 THEN Syntax
  ELSE IF Peek(s, i, {"|", ")", "&", ";"}) \/ i > Len(s) THEN [c |-> Wrapped(Exec(argv), rs), i |-> i]
  ELSE IF ~Word(s, i) \/ Len(argv) + 1 >= MAXARGS THEN Syntax
  ELSE LET x == Redirs(s, i + 1, rs) IN Args(s, x.i, Append(argv, i), x.rs)

ParseBlock(s, i) ==
  LET b == ParseLine(s, i + 1)  x == Redirs(s, b.i + 1, <<>>) IN
  IF Peek(s, b.i, {")"}) THEN [c |-> Wrapped(b.c, x.rs), i |-> x.i] ELSE Syntax

ParseExec(s, i) ==
  IF Peek(s, i, {"("}) THEN ParseBlock(s, i)
  ELSE LET x == Redirs(s, i, <<>>) IN Args(s, x.i, <<>>, x.rs)

ParsePipe(s, i) ==
  LET l == ParseExec(s, i)  r == ParsePipe(s, l.i + 1) IN
  IF Peek(s, l.i, {"|"}) THEN [c |-> Pipe(l.c, r.c), i |-> r.i] ELSE l

\* the &s behind a command
RECURSIVE Backs(_, _)
Backs(s, x) == IF Peek(s, x.i, {"&"}) THEN Backs(s, [c |-> Back(x.c), i |-> x.i + 1]) ELSE x

\* (mutant: ; binds to the left)
RECURSIVE Lists(_, _)
Lists(s, x) == IF Peek(s, x.i, {";"}) THEN LET r == Backs(s, ParsePipe(s, x.i + 1)) IN Lists(s, [c |-> List(x.c, r.c), i |-> r.i]) ELSE x
BadParseLine(s, i) == Lists(s, Backs(s, ParsePipe(s, i)))
ParseLine(s, i) ==
  LET l == Backs(s, ParsePipe(s, i))  r == ParseLine(s, l.i + 1) IN
  IF Peek(s, l.i, {";"}) THEN [c |-> List(l.c, r.c), i |-> r.i] ELSE l

\* parsecmd: the command, if nothing is left over
Parsed(s) == LET x == ParseLine(s, 1) IN IF x.i = Len(s) + 1 THEN {x.c} ELSE {}

\* nulterminate: the words it cuts (mutant: not the one of a redirection)
RECURSIVE BadCut(_), Cut(_)
BadCut(c) == CASE c.t = "exec" -> ToSet(c.argv)
               [] c.t \in {"redir", "back"} -> BadCut(c.cmd)
               [] OTHER -> BadCut(c.left) \cup BadCut(c.right)
Cut(c) ==
  CASE c.t = "exec"  -> ToSet(c.argv)
    [] c.t = "redir" -> Cut(c.cmd) \cup {c.file}
    [] c.t = "back"  -> Cut(c.cmd)
    [] OTHER         -> Cut(c.left) \cup Cut(c.right)

\* the same command with words for their places
RECURSIVE Named(_, _)
Named(c, s) ==
  CASE c.t = "exec"  -> Exec([k \in DOMAIN c.argv |-> s[c.argv[k]]])
    [] c.t = "redir" -> Redir(Named(c.cmd, s), s[c.file], c.fd)
    [] c.t = "back"  -> Back(Named(c.cmd, s))
    [] OTHER         -> [c EXCEPT !.left = Named(@, s), !.right = Named(@, s)]

-----------------------------------------------------------------------------
(* How a user writes a command: the reference for the parser *)

Paren(b, s) == IF b THEN <<"(">> \o s \o <<")">> ELSE s

RECURSIVE Written(_)
Written(c) ==
  CASE c.t = "exec"  -> c.argv
    [] c.t = "redir" -> Paren(c.cmd.t \notin {"exec", "redir"}, Written(c.cmd)) \o <<IF c.fd = 0 THEN "<" ELSE ">", c.file>>
    [] c.t = "pipe"  -> Paren(c.left.t \notin {"exec", "redir"}, Written(c.left)) \o <<"|">>
                        \o Paren(c.right.t \in {"list", "back"}, Written(c.right))
    [] c.t = "back"  -> Paren(c.cmd.t = "list", Written(c.cmd)) \o <<"&">>
    [] c.t = "list"  -> Paren(c.left.t = "list", Written(c.left)) \o <<";">> \o Written(c.right)
=============================================================================
