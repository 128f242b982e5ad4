----------------------------- MODULE UserTests -----------------------------
(***************************************************************************)
(* The file-system tests of Part_B/usertests.c as scripts for FileSys:     *)
(* what each process calls, in order, with the results the test insists    *)
(* on.  A step is a set: one of its calls is made.  Loops are cut to two   *)
(* or three rounds, four children to two, and data are pieces of one       *)
(* transaction; descriptors count from 0 because nothing else is open.     *)
(***************************************************************************)
EXTENDS Integers, Sequences, SequencesExt

CONSTANTS Main, Kid1, Kid2

Kids == <<Kid1, Kid2>>

\* who calls what
Alone(s)     == [p \in {Main, Kid1, Kid2} |-> IF p = Main THEN s ELSE <<>>]
With(s, a)   == [Alone(s) EXCEPT ![Kid1] = a]
With2(s, a, b) == [With(s, a) EXCEPT ![Kid2] = b]

Times(n, S(_)) == FlattenSeq([i \in 1..n |-> S(i)])

\* results, as FileSys names them
Fails == -1
AnyResult   == -2
Works == -3

RD  == {}
RW  == {"rdwr"}
WR  == {"wronly"}
CR  == {"create"}
CRW == {"create", "rdwr"}

Open(path, mode, want) == {[op |-> "open", path |-> path, mode |-> mode, want |-> want]}
Mkdir(path, want)  == {[op |-> "mkdir", path |-> path, want |-> want]}
Unlink(path, want) == {[op |-> "unlink", path |-> path, want |-> want]}
Chdir(path, want)  == {[op |-> "chdir", path |-> path, want |-> want]}
Link(old, new, want) == {[op |-> "link", path |-> old, new |-> new, want |-> want]}
Write(fd, n)       == {[op |-> "write", fd |-> fd, n |-> n, want |-> n]}
Read(fd, n, see, want) == {[op |-> "read", fd |-> fd, n |-> n, see |-> see, want |-> want]}
Close(fd)          == {[op |-> "close", fd |-> fd, want |-> AnyResult]}
Dup(fd, want)      == {[op |-> "dup", fd |-> fd, want |-> want]}
Pipe(want)         == {[op |-> "pipe", want |-> want]}
Fork(p, want)      == {[op |-> "fork", child |-> p, want |-> want]}
Wait(want)         == {[op |-> "wait", want |-> want]}

Up == ".."
File(n) == <<n>>

-----------------------------------------------------------------------------
iputtest == Alone(<<
  Mkdir(<<"iputdir">>, 0), Chdir(<<"iputdir">>, 0), Unlink(<<Up, "iputdir">>, 0), Chdir(<<"/">>, 0)>>)

exitiputtest == With(<<Fork(Kid1, 0), Wait(0)>>,
  <<Mkdir(<<"iputdir">>, 0), Chdir(<<"iputdir">>, 0), Unlink(<<Up, "iputdir">>, 0)>>)

openiputtest == With(<<
  Mkdir(<<"oidir">>, 0), Fork(Kid1, 0), Unlink(<<"oidir">>, 0), Wait(0)>>,
  <<Open(<<"oidir">>, RW, Fails)>>)

opentest == Alone(<<
  Open(<<"README">>, RD, Works), Close(0), Open(<<"doesnotexist">>, RD, Fails)>>)

writetest == Alone(<<
  Open(<<"small">>, CRW, Works), Write(0, 1), Write(0, 1), Close(0),
  Open(<<"small">>, RD, Works), Read(0, 3, {<<Main, Main>>}, 2), Close(0), Unlink(<<"small">>, 0)>>)

writetest1(maxfile) == Alone(
  <<Open(<<"big">>, CRW, Works)>> \o [i \in 1..maxfile |-> Write(0, 1)]
  \o <<Close(0), Open(<<"big">>, RD, Works)>> \o [i \in 1..maxfile |-> Read(0, 1, {<<Main>>}, 1)]
  \o <<Read(0, 1, {}, 0), Close(0), Unlink(<<"big">>, 0)>>)

createtest ==
  LET a == <<"a0", "a1">>  Make(i) == <<Open(File(a[i]), CRW, Works), Close(0)>> IN
  Alone(Times(2, Make) \o [i \in 1..2 |-> Unlink(File(a[i]), 0)])

dirtest == Alone(<<
  Mkdir(<<"dir0">>, 0), Chdir(<<"dir0">>, 0), Chdir(<<Up>>, 0), Unlink(<<"dir0">>, 0)>>)

exitwait == LET Round(i) == <<Fork(Kid1, 0), Wait(0)>> IN Alone(Times(2, Round))

\* both processes write through one open file: no piece is lost
sharedfd ==
  LET seen == {s \in [1..4 -> {Main, Kid1}] : \E i, j \in 1..4 : i < j /\ {n \in 1..4 : s[n] = Kid1} = {i, j}} IN
  With(<<Unlink(<<"sharedfd">>, Fails), Open(<<"sharedfd">>, CRW, 0), Fork(Kid1, 0), Write(0, 1), Write(0, 1),
         Wait(0), Close(0), Open(<<"sharedfd">>, RD, Works), Read(0, 4, seen, 4), Close(0), Unlink(<<"sharedfd">>, 0)>>,
       <<Write(0, 1), Write(0, 1)>>)

fourfiles ==
  LET f == <<"f0", "f1">>
      Start(i) == <<Unlink(File(f[i]), AnyResult), Fork(Kids[i], 0)>>
      Child(i) == <<Open(File(f[i]), CRW, Works), Write(0, 2)>>
      Check(i) == <<Open(File(f[i]), RD, Works), Read(0, 3, {<<Kids[i], Kids[i]>>}, 2), Close(0), Unlink(File(f[i]), 0)>>
  IN With2(Times(2, Start) \o <<Wait(0), Wait(0)>> \o Times(2, Check), Child(1), Child(2))

createdelete ==
  LET p0 == File("p0")  p1 == File("p1")  q0 == File("q0") IN
  With2(<<Fork(Kid1, 0), Fork(Kid2, 0), Wait(0), Wait(0), Open(p0, RD, Works), Close(0), Open(p1, RD, Fails),
          Open(q0, RD, Works), Close(0), Unlink(p0, 0), Unlink(q0, 0)>>,
        <<Open(p0, CRW, Works), Close(0), Open(p1, CRW, Works), Close(0), Unlink(p1, 0)>>,
        <<Open(q0, CRW, Works), Close(0)>>)

unlinkread ==
  LET f == File("unlinkread") IN
  Alone(<<Open(f, CRW, 0), Write(0, 1), Close(0), Open(f, RW, 0), Unlink(f, 0), Open(f, CRW, Works), Write(1, 1), Close(1),
          Read(0, 3, {<<Main>>}, 1), Write(0, 2), Close(0), Unlink(f, 0)>>)

linktest ==
  LET lf1 == File("lf1")  lf2 == File("lf2") IN
  Alone(<<Unlink(lf1, AnyResult), Unlink(lf2, AnyResult), Open(lf1, CRW, 0), Write(0, 1), Close(0), Link(lf1, lf2, 0), Unlink(lf1, 0),
          Open(lf1, RD, Fails), Open(lf2, RD, Works), Read(0, 2, {}, 1), Close(0), Link(lf2, lf2, Fails),
          Unlink(lf2, 0), Link(lf2, lf1, Fails), Link(<<".">>, lf1, Fails)>>)

\* create and link of one name by a process and its child
concreate ==
  LET c0 == File("C0")  c1 == File("C1") IN
  With(<<Open(c0, CRW, Works), Close(0), Unlink(c1, AnyResult), Fork(Kid1, 0), Link(c0, c1, AnyResult), Wait(0),
         Open(c1, RD, Works), Close(0), Fork(Kid1, 0), Open(c0, RD, AnyResult) \cup Unlink(c0, AnyResult), Close(0), Wait(0)>>,
       <<Link(c0, c1, AnyResult) \cup Open(c1, CRW, Works), Close(0)>>)

linkunlink ==
  LET x == File("x")
      Round == <<Open(x, CRW, AnyResult) \cup Link(<<"README">>, x, AnyResult) \cup Unlink(x, AnyResult), Close(0)>>
  IN With(<<Unlink(x, AnyResult), Fork(Kid1, 0)>> \o Round \o <<Wait(0)>>, Round)

bigdir ==
  LET bd == File("bd")  x == <<"x00", "x01", "x02">> IN
  Alone(<<Unlink(bd, AnyResult), Open(bd, CR, 0), Close(0)>> \o [i \in 1..3 |-> Link(bd, File(x[i]), 0)]
        \o <<Unlink(bd, 0)>> \o [i \in 1..3 |-> Unlink(File(x[i]), 0)])

subdir == Alone(<<
  Unlink(<<"ff">>, AnyResult), Mkdir(<<"dd">>, 0),
  Open(<<"dd", "ff">>, CRW, Works), Write(0, 1), Close(0), Unlink(<<"dd">>, Fails),
  Mkdir(<<"/", "dd", "dd">>, 0), Open(<<"dd", "dd", "ff">>, CRW, Works), Write(0, 1), Close(0),
  Open(<<"dd", "dd", Up, "ff">>, RD, Works), Read(0, 2, {}, 1), Close(0),
  Link(<<"dd", "dd", "ff">>, <<"dd", "dd", "ffff">>, 0), Unlink(<<"dd", "dd", "ff">>, 0),
  Open(<<"dd", "dd", "ff">>, RD, Fails),
  Chdir(<<"dd">>, 0), Chdir(<<"dd", Up, Up, "dd">>, 0), Chdir(<<"dd", Up, Up, Up, "dd">>, 0), Chdir(<<".", Up>>, 0),
  Open(<<"dd", "dd", "ffff">>, RD, Works), Read(0, 2, {}, 1), Close(0), Open(<<"dd", "dd", "ff">>, RD, Fails),
  Open(<<"dd", "ff", "ff">>, CRW, Fails), Open(<<"dd", "xx", "ff">>, CRW, Fails),
  Open(<<"dd">>, CR, Fails), Open(<<"dd">>, RW, Fails), Open(<<"dd">>, WR, Fails),
  Link(<<"dd", "ff", "ff">>, <<"dd", "dd", "xx">>, Fails), Link(<<"dd", "xx", "ff">>, <<"dd", "dd", "xx">>, Fails),
  Link(<<"dd", "ff">>, <<"dd", "dd", "ffff">>, Fails),
  Mkdir(<<"dd", "ff", "ff">>, Fails), Mkdir(<<"dd", "xx", "ff">>, Fails), Mkdir(<<"dd", "dd", "ffff">>, Fails),
  Unlink(<<"dd", "xx", "ff">>, Fails), Unlink(<<"dd", "ff", "ff">>, Fails),
  Chdir(<<"dd", "ff">>, Fails), Chdir(<<"dd", "xx">>, Fails),
  Unlink(<<"dd", "dd", "ffff">>, 0), Unlink(<<"dd", "ff">>, 0), Unlink(<<"dd">>, Fails),
  Unlink(<<"dd", "dd">>, 0), Unlink(<<"dd">>, 0)>>)

bigwrite ==
  LET f == File("bigwrite")  Size(n) == <<Open(f, CRW, Works), Write(0, n), Write(0, n), Close(0), Unlink(f, 0)>> IN
  Alone(<<Unlink(f, AnyResult)>> \o Times(2, Size))

bigfile ==
  LET f == File("bigfile") IN
  Alone(<<Unlink(f, AnyResult), Open(f, CRW, Works), Write(0, 1), Write(0, 1), Close(0), Open(f, RD, Works),
          Read(0, 1, {<<Main>>}, 1), Read(0, 1, {<<Main>>}, 1), Read(0, 1, {}, 0), Close(0), Unlink(f, 0)>>)

\* names of 14 and 15 characters
fourteen ==
  LET s == "12345678901234"  l == "123456789012345" IN
  Alone(<<Mkdir(<<s>>, 0), Mkdir(<<s, l>>, 0), Open(<<l, l, l>>, CR, Works), Close(0), Open(<<s, s, s>>, RD, Works), Close(0),
          Mkdir(<<s, s>>, Fails), Mkdir(<<l, s>>, Fails)>>)

rmdot == Alone(<<
  Mkdir(<<"dots">>, 0), Chdir(<<"dots">>, 0), Unlink(<<".">>, Fails), Unlink(<<Up>>, Fails), Chdir(<<"/">>, 0),
  Unlink(<<"dots", ".">>, Fails), Unlink(<<"dots", Up>>, Fails), Unlink(<<"dots">>, 0)>>)

dirfile ==
  LET xx == <<"dirfile", "xx">> IN
  Alone(<<Open(<<"dirfile">>, CR, Works), Close(0), Chdir(<<"dirfile">>, Fails), Open(xx, RD, Fails), Open(xx, CR, Fails),
          Mkdir(xx, Fails), Unlink(xx, Fails), Link(<<"README">>, xx, Fails), Unlink(<<"dirfile">>, 0),
          Open(<<".">>, RW, Fails), Open(<<".">>, RD, 0),
          {[op |-> "write", fd |-> 0, n |-> 1, want |-> Fails]}, Close(0)>>)

\* namex puts the inode when there is no name to return
iref ==
  LET Round(i) == <<Mkdir(<<"irefd">>, 0), Chdir(<<"irefd">>, 0), Mkdir(<<>>, AnyResult), Link(<<"README">>, <<>>, AnyResult),
                    Open(<<>>, CR, AnyResult), Close(0), Open(<<"xx">>, CR, AnyResult), Close(0), Unlink(<<"xx">>, AnyResult)>>
  IN Alone(Times(2, Round) \o <<Chdir(<<"/">>, 0)>>)

\* fork until it fails, wait for them all
forktest == Alone(<<Fork(Kid1, 0), Fork(Kid2, 0), Fork(Kid2, Fails), Wait(0), Wait(0), Wait(Fails)>>)

-----------------------------------------------------------------------------
(* Programs *)

ln(old, new) == <<Link(old, new, AnyResult)>>
rm(path)     == <<Unlink(path, AnyResult)>>
mkdir(path)  == <<Mkdir(path, AnyResult)>>
cat(path)    == <<Open(path, RD, Works), Read(0, 1, {}, 1), Read(0, 1, {}, 0), Close(0)>>
stat(path)   == <<Open(path, RD, 0), {[op |-> "stat", fd |-> 0, want |-> AnyResult]}, Close(0)>>
zombie       == With(<<Fork(Kid1, 0)>>, <<>>)

programs == LET dx == <<"d", "x">> IN
  Alone(mkdir(<<"d">>) \o ln(<<"README">>, dx) \o stat(dx) \o cat(dx) \o rm(dx) \o rm(<<"d">>))

\* the shell's console is descriptor 0 here, as standard output and input
console == <<"console">>
init == With(<<Open(console, RW, Fails), {[op |-> "mknod", path |-> console, want |-> 0]}, Open(console, RW, 0),
               Dup(0, 1), Dup(0, 2), Fork(Kid1, 0), Wait(0)>>, <<>>)

\* left | right
pipeline ==
  With2(<<Open(<<"README">>, RD, 0), Pipe(0), Fork(Kid1, 0), Fork(Kid2, 0), Close(1), Close(2), Wait(0), Wait(0)>>,
        <<Close(0), Dup(2, 0), Close(1), Close(2)>>,
        <<Close(0), Dup(1, 0), Close(1), Close(2)>>)

\* each process writes and reads a file of its own
stressfs ==
  LET Use(f) == <<Open(f, CRW, Works), Write(0, 1), Close(0), Open(f, RD, Works), Read(0, 1, {}, 1), Close(0)>> IN
  With(<<Fork(Kid1, 0)>> \o Use(<<"stressfs0">>) \o <<Wait(0)>>, Use(<<"stressfs1">>))

-----------------------------------------------------------------------------
(* What no test does *)

\* a directory is removed under a process in it, and its parent too
removedparent == Alone(<<
  Mkdir(<<"a">>, 0), Mkdir(<<"a", "b">>, 0), Chdir(<<"a", "b">>, 0), Unlink(<<"/", "a", "b">>, 0),
  Open(<<"xx">>, CR, AnyResult), Unlink(<<"/", "a">>, 0), Open(<<Up, "xx">>, RD, AnyResult)>>)

dotlink == Alone(<<Link(<<"README">>, <<".">>, AnyResult)>>)

outoffiles == Alone(<<Open(<<"README">>, RD, 0), Dup(0, 1), Dup(1, 2), Dup(0, Fails), Open(<<"README">>, RD, Fails),
                      Pipe(Fails), Close(1), Pipe(Fails), Close(0), Pipe(0), Close(2)>>)

scripts(maxfile) ==
  [iputtest |-> iputtest, exitiputtest |-> exitiputtest, openiputtest |-> openiputtest, opentest |-> opentest,
   writetest |-> writetest, writetest1 |-> writetest1(maxfile), createtest |-> createtest, dirtest |-> dirtest,
   exitwait |-> exitwait, sharedfd |-> sharedfd, fourfiles |-> fourfiles, createdelete |-> createdelete,
   unlinkread |-> unlinkread, linktest |-> linktest, concreate |-> concreate, linkunlink |-> linkunlink,
   bigdir |-> bigdir, subdir |-> subdir, bigwrite |-> bigwrite, bigfile |-> bigfile, fourteen |-> fourteen,
   rmdot |-> rmdot, dirfile |-> dirfile, iref |-> iref, forktest |-> forktest, zombie |-> zombie, programs |-> programs,
   init |-> init, pipeline |-> pipeline, stressfs |-> stressfs, removedparent |-> removedparent, dotlink |-> dotlink,
   outoffiles |-> outoffiles]
=============================================================================
