------------------------------- MODULE Shell --------------------------------
(***************************************************************************)
(* sh.c: a line is parsed by a child of the shell, which runs it with fork,*)
(* exec, pipe, dup, close, open and wait.  runcmd turns a command into the *)
(* system calls it makes (Code); every call is a step of its process, and  *)
(* the processes of a command run side by side.  The kernel side (pipes,   *)
(* descriptors, wait) is as the calls promise.  The programs are           *)
(*   echo and yes, which write one byte and two, cat, and true.            *)
(* A fork fails at most once (MAXFAIL), which panics the process.          *)
(***************************************************************************)
EXTENDS ShellSyntax, FiniteSets, FiniteSetsExt, TLC

CONSTANTS NPROC, NOFILE, PIPESIZE, MAXFAIL, Commands, BadLines

Pids  == 1..NPROC
Sh    == 1                             \* the shell itself
Fds   == 0..NOFILE - 1
Names == {"f", "g", "missing"}

VARIABLES
  cmd, line,     \* what the user means, and writes (<<>> before)
  alive, parent, \* "free", "run", "zombie"; 0 is init
  todo,          \* the calls a process has still to make
  fd, p,         \* its descriptors: the open file, or 0; int p[2] of runcmd
  objs, bytes,   \* the open files and pipe ends; bytes in a pipe, by its read end
  size,          \* of a file, or -1
  shown,         \* bytes on the console
  ended, nfail   \* the programs that have ended; forks that failed

svars == <<cmd, line, alive, parent, todo, fd, p, objs, bytes, size, shown, ended, nfail>>

Console == 1                           \* the first open file

Init ==
  /\ cmd = Exec(<<>>) /\ line = <<>>
  /\ alive = [q \in Pids |-> IF q = Sh THEN "run" ELSE "free"] /\ parent = [q \in Pids |-> 0]
  /\ todo = [q \in Pids |-> <<>>]
  /\ fd = [q \in Pids |-> [n \in Fds |-> IF q = Sh /\ n < 3 THEN Console ELSE 0]]
  /\ p = [q \in Pids |-> <<0, 0>>]
  /\ objs = <<[kind |-> "console", name |-> "", off |-> 0]>> /\ bytes = <<0>>
  /\ size = [n \in Names |-> -1] /\ shown = 0 /\ ended = <<>> /\ nfail = 0

-----------------------------------------------------------------------------
(* runcmd *)

Op(o, a) == [op |-> o, arg |-> a]

\* what the two children of a pipe do first (mutant: they leave the pipe open)
BadEnd(n, i) == <<Op("close", n), Op("dup", i)>>
End(n, i) == <<Op("close", n), Op("dup", i), Op("closep", 0)>>

\* (mutant: only for one of them)
BadBoth == <<Op("wait", 0)>>
Both == <<Op("wait", 0), Op("wait", 0)>>

RECURSIVE Code(_)
Code(c) ==
  CASE c.t = "exec"  -> (IF c.argv = <<>> THEN <<>> ELSE <<Op("exec", c.argv[1])>>) \o <<Op("exit", 0)>>
    [] c.t = "redir" -> <<Op("close", c.fd), [op |-> "open", arg |-> c.file, create |-> c.fd = 1]>> \o Code(c.cmd)
    [] c.t = "list"  -> <<Op("fork", Code(c.left)), Op("wait", 0)>> \o Code(c.right)
    [] c.t = "pipe"  -> <<Op("pipe", 0), Op("fork", End(1, 2) \o Code(c.left)), Op("fork", End(0, 1) \o Code(c.right)),
                          Op("closep", 0)>> \o Both \o <<Op("exit", 0)>>
    [] c.t = "back"  -> <<Op("fork", Code(c.cmd)), Op("exit", 0)>>

Programs ==
  ("echo" :> <<Op("write", 0), Op("end", "echo"), Op("exit", 0)>>) @@
  ("yes"  :> <<Op("write", 0), Op("write", 0), Op("end", "yes"), Op("exit", 0)>>) @@
  ("cat"  :> <<Op("cat", 0), Op("end", "cat"), Op("exit", 0)>>) @@
  ("true" :> <<Op("end", "true"), Op("exit", 0)>>)

-----------------------------------------------------------------------------
(* The calls.  A new descriptor is the lowest free one (mutant: the highest). *)

Doing(q, o) == alive[q] = "run" /\ todo[q] # <<>> /\ Head(todo[q]).op = o
Arg(q)      == Head(todo[q]).arg
Did(q)      == todo' = [todo EXCEPT ![q] = Tail(@)]
BadLowest(q) == Max({n \in Fds : fd[q][n] = 0})
Lowest(q)   == Min({n \in Fds : fd[q][n] = 0})
Holders(i)  == {q \in Pids : alive[q] = "run" /\ i \in {fd[q][n] : n \in Fds}}

\* the shell reads a line and starts a child; fork1 panics when fork fails
Free == {q \in Pids : alive[q] = "free"}
Start(q, child, code) ==
  /\ alive' = [alive EXCEPT ![child] = "run"] /\ parent' = [parent EXCEPT ![child] = q]
  /\ fd' = [fd EXCEPT ![child] = fd[q]] /\ p' = [p EXCEPT ![child] = p[q]]

Getcmd ==
  /\ line = <<>>
  /\ \/ \E c \in Commands : cmd' = c /\ line' = Written(c)
     \/ \E s \in BadLines : cmd' = cmd /\ line' = s
  /\ todo' = [todo EXCEPT ![Sh] = <<Op("fork", <<Op("parse", 0)>>), Op("wait", 0), Op("eof", 0)>>]
  /\ UNCHANGED <<alive, parent, fd, p, objs, bytes, size, shown, ended, nfail>>

Parse(q) ==
  /\ Doing(q, "parse")
  /\ todo' = [todo EXCEPT ![q] = IF Parsed(line) = {} THEN <<Op("exit", 0)>>
                                 ELSE Code(Named(CHOOSE c \in Parsed(line) : TRUE, line))]
  /\ UNCHANGED <<cmd, line, alive, parent, fd, p, objs, bytes, size, shown, ended, nfail>>

Fork(q) ==
  /\ Doing(q, "fork") /\ Free # {}
  /\ LET child == Min(Free) IN
     /\ Start(q, child, Arg(q))
     /\ todo' = [todo EXCEPT ![q] = Tail(@), ![child] = Arg(q)]
  /\ UNCHANGED <<cmd, line, objs, bytes, size, shown, ended, nfail>>

ForkFails(q) ==
  /\ Doing(q, "fork") /\ nfail < MAXFAIL /\ nfail' = nfail + 1
  /\ todo' = [todo EXCEPT ![q] = <<Op("exit", 0)>>]
  /\ UNCHANGED <<cmd, line, alive, parent, fd, p, objs, bytes, size, shown, ended>>

\* exit: descriptors, children, and whoever waits
Exit(q) ==
  /\ Doing(q, "exit")
  /\ alive' = [r \in Pids |-> IF r = q THEN (IF parent[q] = 0 THEN "free" ELSE "zombie")
                              ELSE IF alive[r] = "zombie" /\ parent[r] = q THEN "free" ELSE alive[r]]
  /\ parent' = [r \in Pids |-> IF parent[r] = q THEN 0 ELSE parent[r]]
  /\ fd' = [fd EXCEPT ![q] = [n \in Fds |-> 0]] /\ p' = [p EXCEPT ![q] = <<0, 0>>]
  /\ todo' = [todo EXCEPT ![q] = <<>>]
  /\ UNCHANGED <<cmd, line, objs, bytes, size, shown, ended, nfail>>

Kids(q) == {r \in Pids : alive[r] # "free" /\ parent[r] = q}
Dead(q) == {r \in Kids(q) : alive[r] = "zombie"}

Wait(q) ==
  /\ Doing(q, "wait") /\ (Kids(q) = {} \/ Dead(q) # {})
  /\ alive' = IF Dead(q) = {} THEN alive ELSE [alive EXCEPT ![Min(Dead(q))] = "free"]
  /\ Did(q)
  /\ UNCHANGED <<cmd, line, parent, fd, p, objs, bytes, size, shown, ended, nfail>>

SetFd(q, n, i) == fd' = [fd EXCEPT ![q][n] = i]

Close(q) ==
  /\ Doing(q, "close") /\ SetFd(q, Arg(q), 0) /\ Did(q)
  /\ UNCHANGED <<cmd, line, alive, parent, p, objs, bytes, size, shown, ended, nfail>>

\* close(p[0]); close(p[1])
Closep(q) ==
  /\ Doing(q, "closep") /\ Did(q)
  /\ fd' = [fd EXCEPT ![q] = [n \in Fds |-> IF n \in {p[q][1], p[q][2]} THEN 0 ELSE @[n]]]
  /\ UNCHANGED <<cmd, line, alive, parent, p, objs, bytes, size, shown, ended, nfail>>

Dup(q) ==
  /\ Doing(q, "dup") /\ SetFd(q, Lowest(q), fd[q][p[q][Arg(q)]]) /\ Did(q)
  /\ UNCHANGED <<cmd, line, alive, parent, p, objs, bytes, size, shown, ended, nfail>>

MakePipe(q) ==
  LET i == Len(objs) + 1  n == Lowest(q)  m == Min({k \in Fds : fd[q][k] = 0 /\ k # n}) IN
  /\ Doing(q, "pipe") /\ Did(q)
  /\ objs' = objs \o <<[kind |-> "read", name |-> "", off |-> i], [kind |-> "write", name |-> "", off |-> i]>>
  /\ bytes' = bytes \o <<0, 0>>
  /\ fd' = [fd EXCEPT ![q][n] = i, ![q][m] = i + 1] /\ p' = [p EXCEPT ![q] = <<n, m>>]
  /\ UNCHANGED <<cmd, line, alive, parent, size, shown, ended, nfail>>

Open(q) ==
  LET f == Arg(q) IN
  /\ Doing(q, "open")
  /\ IF size[f] = -1 /\ ~Head(todo[q]).create
     THEN todo' = [todo EXCEPT ![q] = <<Op("exit", 0)>>] /\ UNCHANGED <<fd, objs, bytes, size>>
     ELSE /\ Did(q) /\ SetFd(q, Lowest(q), Len(objs) + 1)
          /\ objs' = Append(objs, [kind |-> "file", name |-> f, off |-> 0]) /\ bytes' = Append(bytes, 0)
          /\ size' = IF size[f] = -1 THEN [size EXCEPT ![f] = 0] ELSE size
  /\ UNCHANGED <<cmd, line, alive, parent, p, shown, ended, nfail>>

\* exec: of a program that is not there it returns, and the process exits
ExecProgram(q) ==
  /\ Doing(q, "exec")
  /\ todo' = [todo EXCEPT ![q] = IF Arg(q) \in DOMAIN Programs THEN Programs[Arg(q)] ELSE Tail(@)]
  /\ UNCHANGED <<cmd, line, alive, parent, fd, p, objs, bytes, size, shown, ended, nfail>>

EndProgram(q) ==
  /\ Doing(q, "end") /\ Did(q) /\ ended' = Append(ended, Arg(q))
  /\ UNCHANGED <<cmd, line, alive, parent, fd, p, objs, bytes, size, shown, nfail>>

\* one byte on descriptor 1; with no reader the write fails (mutant: no writer waits)
Object(i) == IF i = 0 THEN [kind |-> "none", name |-> "", off |-> 0] ELSE objs[i]
Out(q) == Object(fd[q][1])
BadFull(q) == FALSE
Full(q) == Out(q).kind = "write" /\ bytes[Out(q).off] = PIPESIZE /\ Holders(Out(q).off) # {}

Write(q) ==
  /\ Doing(q, "write") /\ Did(q) /\ ~Full(q)
  /\ CASE Out(q).kind = "console" -> shown' = shown + 1 /\ UNCHANGED <<bytes, size, objs>>
       [] Out(q).kind = "file" ->
            LET f == Out(q).name IN
            /\ objs' = [objs EXCEPT ![fd[q][1]].off = @ + 1]
            /\ size' = [size EXCEPT ![f] = Max({@, Out(q).off + 1})] /\ UNCHANGED <<bytes, shown>>
       [] Out(q).kind \notin {"console", "file"} ->
            /\ bytes' = IF Out(q).kind # "write" \/ Holders(Out(q).off) = {} THEN bytes ELSE [bytes EXCEPT ![Out(q).off] = @ + 1]
            /\ UNCHANGED <<objs, size, shown>>
  /\ UNCHANGED <<cmd, line, alive, parent, fd, p, ended, nfail>>

\* cat: a byte from descriptor 0, if there is one; the console gives none
In(q) == Object(fd[q][0])
Empty(q) == In(q).kind = "read" /\ bytes[In(q).off] = 0 /\ Holders(In(q).off + 1) # {}
Avail(q) == \/ In(q).kind = "file" /\ In(q).off < size[In(q).name]
            \/ In(q).kind = "read" /\ bytes[In(q).off] > 0

Read(q) ==
  /\ Doing(q, "cat") /\ ~Empty(q)
  /\ todo' = [todo EXCEPT ![q] = IF Avail(q) THEN <<Op("write", 0)>> \o @ ELSE Tail(@)]
  /\ bytes' = IF Avail(q) /\ In(q).kind = "read" THEN [bytes EXCEPT ![In(q).off] = @ - 1] ELSE bytes
  /\ objs' = IF Avail(q) /\ In(q).kind = "file" THEN [objs EXCEPT ![fd[q][0]].off = @ + 1] ELSE objs
  /\ UNCHANGED <<cmd, line, alive, parent, fd, p, size, shown, ended, nfail>>

Next ==
  \/ Getcmd
  \/ \E q \in Pids : \/ Parse(q) \/ Fork(q) \/ ForkFails(q) \/ Exit(q) \/ Wait(q) \/ Close(q) \/ Closep(q) \/ Dup(q)
                     \/ MakePipe(q) \/ Open(q) \/ ExecProgram(q) \/ EndProgram(q) \/ Write(q) \/ Read(q)

Spec == Init /\ [][Next]_svars

-----------------------------------------------------------------------------
(* What a command means, process by process one after the other: the bytes it *)
(* reads from its input, writes to its output, and the sizes of the files     *)

RECURSIVE Meaning(_, _)
Meaning(c, m) ==
  CASE c.t = "exec" ->
         CASE c.argv = <<>> \/ c.argv[1] \notin {"echo", "yes", "cat"} -> m
           [] c.argv[1] = "cat" -> [m EXCEPT !.out = @ + m.in, !.in = 0]
           [] OTHER -> [m EXCEPT !.out = @ + (IF c.argv[1] = "echo" THEN 1 ELSE 2)]
    [] c.t = "redir" /\ c.fd = 0 ->
         IF m.size[c.file] = -1 THEN m ELSE [Meaning(c.cmd, [m EXCEPT !.in = m.size[c.file]]) EXCEPT !.in = m.in]
    [] c.t = "redir" /\ c.fd = 1 ->
         LET n == Meaning(c.cmd, [m EXCEPT !.out = 0, !.size = [@ EXCEPT ![c.file] = Max({@, 0})]])
         IN  [n EXCEPT !.out = m.out, !.size = [@ EXCEPT ![c.file] = Max({@, n.out})]]
    [] c.t = "list" -> Meaning(c.right, Meaning(c.left, m))
    [] c.t = "pipe" ->
         LET l == Meaning(c.left, [m EXCEPT !.out = 0])
         IN  [Meaning(c.right, [l EXCEPT !.in = l.out, !.out = m.out]) EXCEPT !.in = l.in]
    [] OTHER -> m

RECURSIVE Foreground(_)
Foreground(c) ==
  CASE c.t = "exec" -> TRUE
    [] c.t = "back" -> FALSE
    [] c.t = "redir" -> Foreground(c.cmd)
    [] OTHER -> Foreground(c.left) /\ Foreground(c.right)

Prompt == Doing(Sh, "eof")          \* the shell would read the next line

-----------------------------------------------------------------------------
(* Properties *)

\* A descriptor refers to an open file, pipes keep to their size, and a process that
\* is gone holds nothing.
TypeOK ==
  /\ \A q \in Pids, n \in Fds : fd[q][n] \in 0..Len(objs) /\ (alive[q] # "run" => fd[q][n] = 0)
  /\ Len(bytes) = Len(objs) /\ \A i \in DOMAIN bytes : bytes[i] \in 0..PIPESIZE
  /\ parent \in [Pids -> 0..NPROC]

\* The parser understands a command as it is meant (precedence of | & ; and of blocks
\* and redirections), nulterminate cuts every word, and a wrong line is refused.
ParsedAsMeant ==
  /\ line \in BadLines => Parsed(line) = {}
  /\ line \notin BadLines /\ line # <<>> =>
       \E c \in Parsed(line) : Named(c, line) = cmd /\ Cut(c) = {i \in DOMAIN line : Word(line, i)}

\* When the shell asks for the next line, what the last one wrote to the console and
\* to files is what it means, whatever order its processes ran in.
DoneAsMeant ==
  Prompt /\ line \notin BadLines /\ Foreground(cmd) /\ nfail = 0 =>
    LET m == Meaning(cmd, [in |-> 0, out |-> 0, size |-> [n \in Names |-> -1]])
    IN  shown = m.out /\ size = m.size

\* a process that cannot go on
Blocked(q) == \/ Doing(q, "wait") /\ Kids(q) # {} /\ Dead(q) = {}
              \/ Doing(q, "cat") /\ Empty(q)
              \/ Doing(q, "write") /\ Full(q)
              \/ q = Sh /\ Prompt
\* Nobody waits for ever: a reader gets its end of file and a writer its error, for no
\* process keeps an end of a pipe open that it does not use.
NobodyStuck == (\A q \in Pids : alive[q] = "run" => Blocked(q)) => \A q \in Pids : alive[q] = "run" => q = Sh /\ Prompt

\* A program in the foreground has ended before the shell asks for the next line.
ForegroundEnded == Prompt /\ Foreground(cmd) /\ nfail = 0 => \A q \in Pids : alive[q] = "run" => q = Sh
=============================================================================
