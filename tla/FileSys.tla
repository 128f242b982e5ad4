------------------------------ MODULE FileSys ------------------------------
(***************************************************************************)
(* Inodes, directories, path names, open files and the system calls on     *)
(* them (Part_B/fs.c, file.c, sysfile.c), between the locks of the inodes. *)
(*                                                                         *)
(* A system call is the list k of what the process still has to do; each   *)
(* entry is one step that starts where the code takes a lock (an inode's,  *)
(* icache.lock, ftable.lock, the buffer of an inode block) and runs to the *)
(* next.  reg holds the inodes a call has at hand: ip and dp of the code,  *)
(* and cur, the inode namex leaves.  An inode on the disk and its copy in  *)
(* icache differ only while the inode is locked, so there is one of each,  *)
(* with the fields of icache beside it.  Data are written and read in      *)
(* pieces of one transaction (filewrite).                                  *)
(***************************************************************************)
EXTENDS Integers, Sequences, FiniteSets, FiniteSetsExt, SequencesExt

CONSTANTS
  Users,           \* processes; Main runs first and forks the others
  Main, NoProc,
  NINODES,         \* inodes on the disk; 1 is the root
  NFILE, NOFILE,
  MAXFILE,         \* pieces of the longest file
  Scripts,         \* test -> process -> what it calls, in order, each a set of alternatives
  NoTest

ROOTINO == 1
README  == 2
Inums   == 1..NINODES
Fds     == 0..NOFILE - 1
Types   == {"none", "dir", "file", "dev"}

VARIABLES
  itype, nlink, ents, data,        \* the inodes: ents of a directory, data of a file
  ref, valid, iowner,              \* icache; iowner is who has the inode locked
  fref, ftype, fip, foff, fmode,   \* ftable
  ofile, cwd,                      \* struct proc
  k, reg, call,                    \* the rest of the current system call
  at, forked,                      \* the place in the script; the processes there are
  test, verdict,                   \* the script that runs; a result nobody expected, or a panic
  lost                             \* inodes entered into a directory that is removed already,
                                   \* and those of two iputs that overlapped

ivars == <<itype, nlink, ents, data>>
cvars == <<ref, valid, iowner>>
fvars == <<fref, ftype, fip, foff, fmode>>
svars == <<at, forked, test, verdict>>
fsvars == <<ivars, cvars, fvars, ofile, cwd, k, reg, call, svars, lost>>

NoCall == [op |-> "none"]

\* what a script says of a result: the number itself, or one of
Fails == -1
AnyResult   == -2
Works == -3

\* a directory's entries: its own two, and with one more
Dots(i, d) == [n \in {".", ".."} |-> IF n = "." THEN i ELSE d]
Entry(es, n, j) == [m \in DOMAIN es \cup {n} |-> IF m = n THEN j ELSE es[m]]

\* the disk of mkfs: the root, and one file in it
Init ==
  /\ itype = [i \in Inums |-> IF i = ROOTINO THEN "dir" ELSE IF i = README THEN "file" ELSE "none"]
  /\ nlink = [i \in Inums |-> IF i \in {ROOTINO, README} THEN 1 ELSE 0]
  /\ ents = [i \in Inums |-> IF i = ROOTINO THEN Entry(Dots(i, i), "README", README) ELSE <<>>]
  /\ data = [i \in Inums |-> IF i = README THEN <<Main>> ELSE <<>>]
  /\ ref = [i \in Inums |-> IF i = ROOTINO THEN 1 ELSE 0]
  /\ valid = [i \in Inums |-> FALSE] /\ iowner = [i \in Inums |-> NoProc]
  /\ fref = [f \in 1..NFILE |-> 0] /\ ftype = [f \in 1..NFILE |-> "none"]
  /\ fip = fref /\ foff = fref /\ fmode = [f \in 1..NFILE |-> {}]
  /\ ofile = [p \in Users |-> [fd \in Fds |-> 0]]
  /\ cwd = [p \in Users |-> IF p = Main THEN ROOTINO ELSE 0]
  /\ k = [p \in Users |-> <<>>] /\ call = [p \in Users |-> NoCall]
  /\ reg = [p \in Users |-> [r \in {"ip", "dp", "cur"} |-> 0]]
  /\ at = [p \in Users |-> 0] /\ forked = {Main}
  /\ test = NoTest /\ verdict = "none" /\ lost = {}

-----------------------------------------------------------------------------
(* Steps of a call *)

\* the entry p has come to, and what follows it
Now(p)  == Head(k[p])
At(p, s) == k[p] # <<>> /\ Now(p)[1] = s
Do(p, es) == k' = [k EXCEPT ![p] = es \o Tail(@)]        \* es, then the rest
Jump(p, es) == k' = [k EXCEPT ![p] = es]                 \* es, and no more
Set(p, r, i) == reg' = [reg EXCEPT ![p][r] = i]
Reg(p) == reg[p][Now(p)[2]]

Lock(r)   == <<"lock", r>>
Unlock(r) == <<"unlock", r>>
Put(r)    == <<"put", r>>
UnlockPut(r) == <<Unlock(r), Put(r)>>                    \* iunlockput
Ret(v)    == <<"ret", v>>
Step(s)   == <<s>>

\* iget and idup; an inode that nobody refers to is read again
Iget(i) ==
  /\ ref' = [ref EXCEPT ![i] = @ + 1]
  /\ valid' = [valid EXCEPT ![i] = @ /\ ref[i] > 0]

Panic(p, why) == verdict' = why /\ UNCHANGED <<ivars, cvars, fvars, ofile, cwd, k, reg, call, at, forked, test, lost>>

\* ilock, with the read of the inode into the cache
Ilock(p) ==
  LET i == Reg(p) IN
  /\ At(p, "lock") /\ iowner[i] = NoProc
  /\ IF ~valid[i] /\ itype[i] = "none" THEN Panic(p, "ilock: no type")
     ELSE /\ iowner' = [iowner EXCEPT ![i] = p] /\ valid' = [valid EXCEPT ![i] = TRUE]
          /\ Do(p, <<>>)
          /\ UNCHANGED <<ivars, ref, fvars, ofile, cwd, reg, call, svars, lost>>

Iunlock(p) ==
  /\ At(p, "unlock")
  /\ iowner' = [iowner EXCEPT ![Reg(p)] = NoProc]
  /\ Do(p, <<>>)
  /\ UNCHANGED <<ivars, ref, valid, fvars, ofile, cwd, reg, call, svars, lost>>

\* iput finds that nobody else knows the inode (mutant: it does not ask)
BadLastRef(i) == valid[i] /\ nlink[i] = 0
LastRef(i) == valid[i] /\ nlink[i] = 0 /\ ref[i] = 1

\* another iput of i is between its test and its ref--
Overlapped(i) == \E q \in Users : At(q, "drop") /\ Reg(q) = i

\* iput: the test, under the lock of the inode
Iput(p) ==
  LET i == Reg(p) IN
  /\ At(p, "put") /\ iowner[i] = NoProc
  /\ IF LastRef(i)
     THEN iowner' = [iowner EXCEPT ![i] = p] /\ Do(p, <<<<"trunc", Now(p)[2]>>, <<"drop", Now(p)[2]>>>>)
     ELSE UNCHANGED iowner /\ Do(p, <<<<"drop", Now(p)[2]>>>>)
  /\ lost' = IF nlink[i] = 0 /\ Overlapped(i) THEN lost \cup {i} ELSE lost
  /\ UNCHANGED <<ivars, ref, valid, fvars, ofile, cwd, reg, call, svars>>

\* itrunc, type = 0, iupdate, valid = 0
Itrunc(p) ==
  LET i == Reg(p) IN
  /\ At(p, "trunc")
  /\ itype' = [itype EXCEPT ![i] = "none"] /\ data' = [data EXCEPT ![i] = <<>>]
  /\ ents' = [ents EXCEPT ![i] = <<>>] /\ valid' = [valid EXCEPT ![i] = FALSE]
  /\ iowner' = [iowner EXCEPT ![i] = NoProc]
  /\ Do(p, <<>>)
  /\ UNCHANGED <<nlink, ref, fvars, ofile, cwd, reg, call, svars, lost>>

IputDrop(p) ==
  /\ At(p, "drop")
  /\ ref' = [ref EXCEPT ![Reg(p)] = @ - 1]
  /\ Do(p, <<>>)
  /\ UNCHANGED <<ivars, valid, iowner, fvars, ofile, cwd, reg, call, svars, lost>>

\* the end of a call: its result, and end_op
Return(p) ==
  /\ At(p, "ret")
  /\ LET want == call[p].want  v == Now(p)[2] IN
     verdict' = IF want \in {v, AnyResult} \/ (want = Works /\ v >= 0) THEN verdict ELSE "wrong result"
  /\ k' = [k EXCEPT ![p] = <<>>] /\ at' = [at EXCEPT ![p] = @ + 1]
  /\ call' = [call EXCEPT ![p] = NoCall]
  /\ Set(p, "ip", 0)
  /\ UNCHANGED <<ivars, cvars, fvars, ofile, cwd, forked, test, lost>>

-----------------------------------------------------------------------------
(* namex *)

\* a path is a sequence of names, an absolute one begins with "/"
Absolute(path) == path # <<>> /\ Head(path) = "/"

\* DIRSIZ: a longer name is cut (skipelem)
Long == [n \in {"123456789012345"} |-> "12345678901234"]
Cut(n) == IF n \in DOMAIN Long THEN Long[n] ELSE n
Target(path) == Cut(path[Len(path)])

Walk(path, parent, r) == <<"walk", path, parent, r>>

WalkStart(p) ==
  LET path == Now(p)[2]  i == IF Absolute(path) THEN ROOTINO ELSE cwd[p] IN
  /\ At(p, "walk")
  /\ Iget(i) /\ Set(p, Now(p)[4], i)
  /\ Do(p, <<<<"elem", IF Absolute(path) THEN Tail(path) ELSE path, Now(p)[3], Now(p)[4]>>>>)
  /\ UNCHANGED <<ivars, iowner, fvars, ofile, cwd, call, svars, lost>>

\* skipelem: no element left
WalkEnd(p) ==
  /\ At(p, "elem") /\ Now(p)[2] = <<>>
  /\ IF Now(p)[3] THEN Jump(p, <<Put(Now(p)[4]), Step("fail")>>) ELSE Do(p, <<>>)
  /\ UNCHANGED <<ivars, cvars, fvars, ofile, cwd, reg, call, svars, lost>>

WalkLock(p) ==
  /\ At(p, "elem") /\ Now(p)[2] # <<>>
  /\ Do(p, <<Lock(Now(p)[4]), <<"look">> \o Tail(Now(p))>>)
  /\ UNCHANGED <<ivars, cvars, fvars, ofile, cwd, reg, call, svars, lost>>

\* dirlookup; the next inode is referenced before this one is let go
\* (mutant: the reference comes later)
BadNextRef(i) == UNCHANGED <<ref, valid>>
NextRef(i) == Iget(i)

WalkLook(p) ==
  LET path == Now(p)[2]  r == Now(p)[4]  i == reg[p][r]  n == Cut(Head(path)) IN
  /\ At(p, "look")
  /\ \/ /\ itype[i] = "dir" => ~(Now(p)[3] /\ Len(path) = 1) /\ n \notin DOMAIN ents[i]
        /\ Jump(p, UnlockPut(r) \o <<Step("fail")>>) /\ UNCHANGED <<ref, valid, reg>>
     \/ /\ itype[i] = "dir" /\ Now(p)[3] /\ Len(path) = 1
        /\ Do(p, <<Unlock(r)>>) /\ UNCHANGED <<ref, valid, reg>>
     \/ /\ itype[i] = "dir" /\ ~(Now(p)[3] /\ Len(path) = 1) /\ n \in DOMAIN ents[i]
        /\ NextRef(ents[i][n])
        /\ reg' = [reg EXCEPT ![p]["cur"] = i, ![p][r] = ents[i][n]]
        /\ Do(p, UnlockPut("cur") \o <<<<"elem", Tail(path), Now(p)[3], r>>>>)
  /\ UNCHANGED <<ivars, iowner, fvars, ofile, cwd, call, svars, lost>>

\* namex has found nothing: sys_link takes its count back, the others return
Undo == <<Lock("ip"), Step("nlink--")>> \o UnlockPut("ip") \o <<Ret(-1)>>

Fail(p) ==
  /\ At(p, "fail")
  /\ Jump(p, IF call[p].op = "link" /\ call[p].linked THEN Undo ELSE <<Ret(-1)>>)
  /\ UNCHANGED <<ivars, cvars, fvars, ofile, cwd, reg, call, svars, lost>>

-----------------------------------------------------------------------------
(* create, for sys_open, sys_mkdir, sys_mknod *)

CreateType(c) == CASE c.op = "mkdir" -> "dir" [] c.op = "mknod" -> "dev" [] OTHER -> "file"

\* what the caller of create does with the inode it gets, locked (mutant: sys_mkdir and
\* sys_mknod keep it)
BadAfterCreate(c) == IF c.op = "open" THEN <<Step("file")>> ELSE <<Ret(0)>>
AfterCreate(c) ==
  IF c.op = "open" THEN <<Step("file")>> ELSE UnlockPut("ip") \o <<Ret(0)>>

\* a file that exists is opened, anything else is in the way
CreateExists(p) ==
  LET d == reg[p]["dp"]  n == Target(call[p].path) IN
  /\ At(p, "create") /\ n \in DOMAIN ents[d]
  /\ Iget(ents[d][n]) /\ Set(p, "ip", ents[d][n])
  /\ Jump(p, UnlockPut("dp") \o <<Lock("ip"), Step("exists")>>)
  /\ UNCHANGED <<ivars, iowner, fvars, ofile, cwd, call, svars, lost>>

Exists(p) ==
  /\ At(p, "exists")
  /\ Jump(p, IF CreateType(call[p]) = "file" /\ itype[reg[p]["ip"]] = "file"
             THEN AfterCreate(call[p]) ELSE UnlockPut("ip") \o <<Ret(-1)>>)
  /\ UNCHANGED <<ivars, cvars, fvars, ofile, cwd, reg, call, svars, lost>>

\* ialloc takes the first free inode of the disk
Ialloc(p) ==
  LET free == {i \in Inums : itype[i] = "none"} IN
  /\ At(p, "create") /\ Target(call[p].path) \notin DOMAIN ents[reg[p]["dp"]]
  /\ IF free = {} THEN Panic(p, "ialloc: no inodes")
     ELSE /\ itype' = [itype EXCEPT ![Min(free)] = CreateType(call[p])]
          /\ nlink' = [nlink EXCEPT ![Min(free)] = 0]
          /\ data' = [data EXCEPT ![Min(free)] = <<>>]
          /\ Iget(Min(free)) /\ Set(p, "ip", Min(free))
          /\ Jump(p, <<Lock("ip"), Step("enter")>>)
          /\ UNCHANGED <<ents, iowner, fvars, ofile, cwd, call, svars, lost>>

\* the new inode's count, its own entries, and its name in dp
Enter(p) ==
  LET d == reg[p]["dp"]  i == reg[p]["ip"]  n == Target(call[p].path)  dir == CreateType(call[p]) = "dir" IN
  /\ At(p, "enter")
  /\ nlink' = [nlink EXCEPT ![i] = 1, ![d] = IF dir THEN @ + 1 ELSE @]
  /\ ents' = [ents EXCEPT ![i] = IF dir THEN Dots(i, d) ELSE <<>>,
                          ![d] = Entry(@, n, i)]
  /\ lost' = IF nlink[d] = 0 \/ d \in lost THEN lost \cup {i, d} ELSE lost
  /\ Jump(p, UnlockPut("dp") \o AfterCreate(call[p]))
  /\ UNCHANGED <<itype, data, cvars, fvars, ofile, cwd, reg, call, svars>>

-----------------------------------------------------------------------------
(* sys_open *)

OpenLocked(p) ==
  LET c == call[p] IN
  /\ At(p, "open")
  /\ Jump(p, IF itype[reg[p]["ip"]] = "dir" /\ c.mode # {}
             THEN UnlockPut("ip") \o <<Ret(-1)>> ELSE <<Step("file")>>)
  /\ UNCHANGED <<ivars, cvars, fvars, ofile, cwd, reg, call, svars, lost>>

FreeFiles == {f \in 1..NFILE : fref[f] = 0}
FreeFds(p) == {fd \in Fds : ofile[p][fd] = 0}

Readable(flags) == "wronly" \notin flags
Writable(flags) == flags \cap {"wronly", "rdwr"} # {}

\* filealloc, fdalloc and the fields of the file; the file is given back when
\* there is no descriptor for it
OpenFile(p) ==
  /\ At(p, "file")
  /\ IF FreeFiles = {} \/ FreeFds(p) = {}
     THEN /\ Jump(p, UnlockPut("ip") \o <<Ret(-1)>>)
          /\ UNCHANGED <<fvars, ofile>>
     ELSE LET f == Min(FreeFiles)  fd == Min(FreeFds(p)) IN
          /\ fref' = [fref EXCEPT ![f] = 1] /\ ftype' = [ftype EXCEPT ![f] = "inode"]
          /\ fip' = [fip EXCEPT ![f] = reg[p]["ip"]] /\ foff' = [foff EXCEPT ![f] = 0]
          /\ fmode' = [fmode EXCEPT ![f] = call[p].mode]
          /\ ofile' = [ofile EXCEPT ![p][fd] = f]
          /\ Jump(p, <<Unlock("ip"), Ret(fd)>>)
  /\ UNCHANGED <<ivars, cvars, cwd, reg, call, svars, lost>>

-----------------------------------------------------------------------------
(* sys_link, sys_unlink, sys_chdir *)

\* the count goes up first (mutant: only when the entry is there)
BadCounted(i) == UNCHANGED nlink
Counted(i) == nlink' = [nlink EXCEPT ![i] = @ + 1]

LinkCount(p) ==
  LET i == reg[p]["ip"] IN
  /\ At(p, "link")
  /\ IF itype[i] = "dir"
     THEN Jump(p, UnlockPut("ip") \o <<Ret(-1)>>) /\ UNCHANGED <<nlink, call>>
     ELSE /\ Counted(i) /\ Do(p, <<Unlock("ip")>>)
          /\ call' = [call EXCEPT ![p].linked = TRUE]
  /\ UNCHANGED <<itype, ents, data, cvars, fvars, ofile, cwd, reg, svars, lost>>

\* dirlink: a name that is there is looked up and put while dp is locked
LinkEnter(p) ==
  LET d == reg[p]["dp"]  n == Target(call[p].new)  i == reg[p]["ip"] IN
  /\ At(p, "linkdir")
  /\ IF n \in DOMAIN ents[d]
     THEN /\ Iget(ents[d][n]) /\ Set(p, "cur", ents[d][n])
          /\ Jump(p, <<Put("cur")>> \o UnlockPut("dp") \o Undo)
          /\ UNCHANGED <<ents, lost>>
     ELSE /\ ents' = [ents EXCEPT ![d] = Entry(@, n, i)]
          /\ lost' = IF nlink[d] = 0 THEN lost \cup {i} ELSE lost
          /\ Jump(p, UnlockPut("dp") \o <<Put("ip"), Ret(0)>>)
          /\ UNCHANGED <<ref, valid, reg>>
  /\ UNCHANGED <<itype, nlink, data, iowner, fvars, ofile, cwd, call, svars>>

UnlinkLook(p) ==
  LET d == reg[p]["dp"]  n == Target(call[p].path) IN
  /\ At(p, "unlink")
  /\ IF n \in {".", ".."} \/ n \notin DOMAIN ents[d]
     THEN Jump(p, UnlockPut("dp") \o <<Ret(-1)>>) /\ UNCHANGED <<ref, valid, reg>>
     ELSE /\ Iget(ents[d][n]) /\ Set(p, "ip", ents[d][n])
          /\ Jump(p, <<Lock("ip"), Step("remove")>>)
  /\ UNCHANGED <<ivars, iowner, fvars, ofile, cwd, call, svars, lost>>

\* isdirempty (mutant: the last entry is not looked at)
BadIsdirempty(i) == Cardinality(DOMAIN ents[i]) <= 3
Isdirempty(i) == DOMAIN ents[i] \subseteq {".", ".."}

UnlinkRemove(p) ==
  LET d == reg[p]["dp"]  i == reg[p]["ip"]  n == Target(call[p].path) IN
  /\ At(p, "remove")
  /\ IF nlink[i] < 1 THEN Panic(p, "unlink: nlink < 1")
     ELSE IF itype[i] = "dir" /\ ~Isdirempty(i)
     THEN /\ Jump(p, UnlockPut("ip") \o UnlockPut("dp") \o <<Ret(-1)>>)
          /\ UNCHANGED <<ivars, cvars, fvars, ofile, cwd, reg, call, svars, lost>>
     ELSE /\ ents' = [ents EXCEPT ![d] = Restrict(@, DOMAIN @ \ {n})]
          /\ nlink' = [nlink EXCEPT ![d] = IF itype[i] = "dir" THEN @ - 1 ELSE @]
          /\ Jump(p, UnlockPut("dp") \o <<Step("nlink--")>> \o UnlockPut("ip") \o <<Ret(0)>>)
          /\ UNCHANGED <<itype, data, cvars, fvars, ofile, cwd, reg, call, svars, lost>>

NlinkDown(p) ==
  /\ At(p, "nlink--")
  /\ nlink' = [nlink EXCEPT ![reg[p]["ip"]] = @ - 1]
  /\ Do(p, <<>>)
  /\ UNCHANGED <<itype, ents, data, cvars, fvars, ofile, cwd, reg, call, svars, lost>>

\* the old directory is put, the new one keeps the reference of namei
Chdir(p) ==
  LET i == reg[p]["ip"] IN
  /\ At(p, "chdir")
  /\ IF itype[i] # "dir" THEN Jump(p, UnlockPut("ip") \o <<Ret(-1)>>) /\ UNCHANGED <<cwd, reg>>
     ELSE /\ cwd' = [cwd EXCEPT ![p] = i] /\ Set(p, "cur", cwd[p])
          /\ Jump(p, <<Unlock("ip"), Put("cur"), Ret(0)>>)
  /\ UNCHANGED <<ivars, cvars, fvars, ofile, call, svars, lost>>

-----------------------------------------------------------------------------
(* fileread, filewrite, filestat on f->ip *)

File(p) == ofile[p][call[p].fd]

Least(m, n) == IF m < n THEN m ELSE n

ReadFile(p) ==
  LET f == File(p)  n == Least(call[p].n, Len(data[fip[f]]) - foff[f]) IN
  /\ At(p, "read")
  /\ foff' = [foff EXCEPT ![f] = @ + n]
  /\ Do(p, <<Unlock("ip"), Ret(n)>>)
  /\ verdict' = IF call[p].see = {} \/ SubSeq(data[fip[f]], foff[f] + 1, foff[f] + n) \in call[p].see
                THEN verdict ELSE "wrong data"
  /\ UNCHANGED <<ivars, cvars, fref, ftype, fip, fmode, ofile, cwd, reg, call, at, forked, test, lost>>

\* the offset of a write (mutant: remembered from before the lock)
BadWriteAt(p) == call[p].off
WriteAt(p) == foff[File(p)]

\* one transaction of filewrite: writei under the lock of the inode
WriteFile(p) ==
  LET f == File(p)  i == fip[f]  o == WriteAt(p) IN
  /\ At(p, "write")
  /\ IF o >= MAXFILE THEN Jump(p, <<Unlock("ip"), Ret(-1)>>) /\ UNCHANGED <<data, foff>>
     ELSE /\ data' = [data EXCEPT ![i] = IF o < Len(@) THEN [@ EXCEPT ![o + 1] = p] ELSE Append(@, p)]
          /\ foff' = [foff EXCEPT ![f] = o + 1]
          /\ Do(p, <<Unlock("ip")>>)
  /\ UNCHANGED <<itype, nlink, ents, cvars, fref, ftype, fip, fmode, ofile, cwd, reg, call, svars, lost>>

StatFile(p) ==
  /\ At(p, "stat")
  /\ Do(p, <<Unlock("ip"), Ret(nlink[reg[p]["ip"]])>>)
  /\ UNCHANGED <<ivars, cvars, fvars, ofile, cwd, reg, call, svars, lost>>

\* what a call on an open file does, by its mode; a pipe is Pipe.tla's
FileCall(p, c, f) ==
  CASE c.op = "read"  /\ ftype[f] = "inode" /\ Readable(fmode[f])  -> <<Lock("ip"), Step("read")>>
    [] c.op = "write" /\ ftype[f] = "inode" /\ Writable(fmode[f]) ->
         FlattenSeq([j \in 1..c.n |-> <<Lock("ip"), Step("write")>>]) \o <<Ret(c.n)>>
    [] c.op = "stat"  /\ ftype[f] = "inode" -> <<Lock("ip"), Step("stat")>>
    [] OTHER -> <<Ret(-1)>>

-----------------------------------------------------------------------------
(* fileclose, sys_dup, sys_pipe; fork, exit, wait as far as files go *)

\* the last close of a file (mutant: a file that is dupped is closed with the first)
BadLastClose(f) == fref[f] <= 2
LastClose(f) == fref[f] = 1

\* fd is cleared and the file closed; the last close puts the inode
CloseFd(p, fd, rest) ==
  LET f == ofile[p][fd] IN
  /\ ofile' = [ofile EXCEPT ![p][fd] = 0]
  /\ fref'  = [fref EXCEPT ![f] = @ - 1]
  /\ ftype' = IF LastClose(f) THEN [ftype EXCEPT ![f] = "none"] ELSE ftype
  /\ IF LastClose(f) /\ ftype[f] = "inode"
     THEN Set(p, "ip", fip[f]) /\ Jump(p, <<Put("ip")>> \o rest)
     ELSE UNCHANGED reg /\ Jump(p, rest)

Close(p) ==
  /\ At(p, "close")
  /\ CloseFd(p, call[p].fd, <<Ret(0)>>)
  /\ UNCHANGED <<ivars, cvars, fip, foff, fmode, cwd, call, svars, lost>>

\* filedup (mutant: the count stays)
BadFiledup(f) == UNCHANGED fref
Filedup(f) == fref' = [fref EXCEPT ![f] = @ + 1]

Dup(p) ==
  /\ At(p, "dup")
  /\ IF FreeFds(p) = {} THEN Jump(p, <<Ret(-1)>>) /\ UNCHANGED <<fref, ofile>>
     ELSE /\ Filedup(File(p))
          /\ ofile' = [ofile EXCEPT ![p][Min(FreeFds(p))] = File(p)]
          /\ Jump(p, <<Ret(Min(FreeFds(p)))>>)
  /\ UNCHANGED <<ivars, cvars, ftype, fip, foff, fmode, cwd, reg, call, svars, lost>>

\* sys_pipe: two files and two descriptors, or nothing
PipeFds(p) ==
  /\ At(p, "pipe")
  /\ IF Cardinality(FreeFiles) < 2 \/ Cardinality(FreeFds(p)) < 2
     THEN Jump(p, <<Ret(-1)>>) /\ UNCHANGED <<fref, ftype, fmode, ofile>>
     ELSE LET f0 == Min(FreeFiles)  f1 == Min(FreeFiles \ {f0})
              d0 == Min(FreeFds(p))  d1 == Min(FreeFds(p) \ {d0}) IN
          /\ fref'  = [fref EXCEPT ![f0] = 1, ![f1] = 1]
          /\ ftype' = [ftype EXCEPT ![f0] = "pipe", ![f1] = "pipe"]
          /\ fmode' = [fmode EXCEPT ![f0] = {}, ![f1] = {"wronly"}]
          /\ ofile' = [ofile EXCEPT ![p][d0] = f0, ![p][d1] = f1]
          /\ Jump(p, <<Ret(0)>>)
  /\ UNCHANGED <<ivars, cvars, fip, foff, cwd, reg, call, svars, lost>>

\* fork: filedup of every open file and idup of the directory; a slot that is
\* still taken stands for a full process table
Fork(p) ==
  LET q == call[p].child IN
  /\ At(p, "fork")
  /\ IF q \in forked
     THEN Jump(p, <<Ret(-1)>>) /\ UNCHANGED <<ref, valid, fref, ofile, cwd, forked>>
     ELSE /\ fref' = [f \in 1..NFILE |-> fref[f] + Cardinality({fd \in Fds : ofile[p][fd] = f})]
          /\ ofile' = [ofile EXCEPT ![q] = ofile[p]]
          /\ Iget(cwd[p]) /\ cwd' = [cwd EXCEPT ![q] = cwd[p]]
          /\ forked' = forked \cup {q}
          /\ Jump(p, <<Ret(0)>>)
  /\ UNCHANGED <<ivars, iowner, ftype, fip, foff, fmode, reg, call, at, test, verdict, lost>>

Children  == forked \ {Main}
Exited(p) == p \in forked /\ cwd[p] = 0

\* wait for any child
Wait(p) ==
  /\ At(p, "wait")
  /\ \/ \E q \in Children :
          /\ Exited(q) /\ forked' = forked \ {q} /\ at' = [at EXCEPT ![q] = 0]
          /\ Jump(p, <<Ret(0)>>)
     \/ Children = {} /\ UNCHANGED <<forked, at>> /\ Jump(p, <<Ret(-1)>>)
  /\ UNCHANGED <<ivars, cvars, fvars, ofile, cwd, reg, call, test, verdict, lost>>

\* exit: every descriptor, then the directory
ExitClose(p) ==
  /\ At(p, "exit")
  /\ \E fd \in Fds :
       /\ ofile[p][fd] # 0 /\ \A e \in 0..fd-1 : ofile[p][e] = 0
       /\ CloseFd(p, fd, <<Step("exit")>>)
  /\ UNCHANGED <<ivars, cvars, fip, foff, fmode, cwd, call, svars, lost>>

ExitCwd(p) ==
  /\ At(p, "exit") /\ \A fd \in Fds : ofile[p][fd] = 0
  /\ Set(p, "cur", cwd[p])
  /\ Jump(p, <<Put("cur"), Step("zombie")>>)
  /\ UNCHANGED <<ivars, cvars, fvars, ofile, cwd, call, svars, lost>>

Zombie(p) ==
  /\ At(p, "zombie")
  /\ cwd' = [cwd EXCEPT ![p] = 0] /\ Jump(p, <<>>)
  /\ UNCHANGED <<ivars, cvars, fvars, ofile, reg, call, svars, lost>>

-----------------------------------------------------------------------------
(* The calls of a script *)

Begin(p, c) ==
  CASE c.op = "open" /\ "create" \in c.mode -> <<Walk(c.path, TRUE, "dp"), Lock("dp"), Step("create")>>
    [] c.op = "open"   -> <<Walk(c.path, FALSE, "ip"), Lock("ip"), Step("open")>>
    [] c.op \in {"mkdir", "mknod"} -> <<Walk(c.path, TRUE, "dp"), Lock("dp"), Step("create")>>
    [] c.op = "unlink" -> <<Walk(c.path, TRUE, "dp"), Lock("dp"), Step("unlink")>>
    [] c.op = "link"   -> <<Walk(c.path, FALSE, "ip"), Lock("ip"), Step("link"),
                            Walk(c.new, TRUE, "dp"), Lock("dp"), Step("linkdir")>>
    [] c.op = "chdir"  -> <<Walk(c.path, FALSE, "ip"), Lock("ip"), Step("chdir")>>
    [] c.op \in {"read", "write", "stat"} -> FileCall(p, c, ofile[p][c.fd])
    [] OTHER -> <<Step(c.op)>>

\* argfd
BadFd(p, c) ==
  c.op \in {"read", "write", "stat", "close", "dup"} /\ (c.fd \notin Fds \/ ofile[p][c.fd] = 0)

PickTest ==
  /\ test = NoTest /\ test' \in DOMAIN Scripts
  /\ UNCHANGED <<ivars, cvars, fvars, ofile, cwd, k, reg, call, at, forked, verdict, lost>>

Syscall(p) ==
  /\ test # NoTest /\ p \in forked /\ ~Exited(p) /\ k[p] = <<>>
  /\ at[p] < Len(Scripts[test][p])
  /\ \E c \in Scripts[test][p][at[p] + 1] :
       /\ call' = [call EXCEPT ![p] =
            IF c.op = "link" THEN c @@ [linked |-> FALSE]
            ELSE IF c.op = "write" /\ ~BadFd(p, c) THEN c @@ [off |-> foff[ofile[p][c.fd]]] ELSE c]
       /\ Jump(p, IF BadFd(p, c) THEN <<Ret(-1)>> ELSE Begin(p, c))
       /\ reg' = [reg EXCEPT ![p]["ip"] = IF c.op \in {"read", "write", "stat"} /\ ~BadFd(p, c)
                                          THEN fip[ofile[p][c.fd]] ELSE 0]
  /\ UNCHANGED <<ivars, cvars, fvars, ofile, cwd, svars, lost>>

Exit(p) ==
  /\ test # NoTest /\ p \in forked /\ ~Exited(p) /\ k[p] = <<>>
  /\ at[p] = Len(Scripts[test][p])
  /\ Jump(p, <<Step("exit")>>)
  /\ UNCHANGED <<ivars, cvars, fvars, ofile, cwd, reg, call, svars, lost>>

Namex(p)  == WalkStart(p) \/ WalkEnd(p) \/ WalkLock(p) \/ WalkLook(p)
Inode(p)  == Ilock(p) \/ Iunlock(p) \/ Iput(p) \/ Itrunc(p) \/ IputDrop(p)
CreateIt(p) == CreateExists(p) \/ Exists(p) \/ Ialloc(p) \/ Enter(p)
Names(p)  == LinkCount(p) \/ LinkEnter(p) \/ UnlinkLook(p) \/ UnlinkRemove(p) \/ NlinkDown(p) \/ Chdir(p)
Files(p)  == OpenLocked(p) \/ OpenFile(p) \/ ReadFile(p) \/ WriteFile(p) \/ StatFile(p)
             \/ Close(p) \/ Dup(p) \/ PipeFds(p)
Process(p) == Fork(p) \/ Wait(p) \/ Exit(p) \/ ExitClose(p) \/ ExitCwd(p) \/ Zombie(p)

Next ==
  \/ PickTest
  \/ \E p \in Users : /\ verdict = "none"
                      /\ \/ Syscall(p) \/ Return(p) \/ Fail(p) \/ Namex(p) \/ Inode(p)
                         \/ CreateIt(p) \/ Names(p) \/ Files(p) \/ Process(p)

Spec == Init /\ [][Next]_fsvars

-----------------------------------------------------------------------------
(* Properties *)

\* Inodes, files, descriptors and processes are in states they can be in.
TypeOK ==
  /\ itype \in [Inums -> Types] /\ \A i \in Inums : nlink[i] \in Nat /\ ref[i] \in Nat
  /\ \A i \in Inums : \A n \in DOMAIN ents[i] : ents[i][n] \in Inums
  /\ valid \in [Inums -> BOOLEAN] /\ iowner \in [Inums -> Users \cup {NoProc}]
  /\ \A f \in 1..NFILE : fref[f] \in 0..NOFILE * Cardinality(Users) /\ foff[f] \in 0..MAXFILE
  /\ ofile \in [Users -> [Fds -> 0..NFILE]] /\ cwd \in [Users -> {0} \cup Inums]

\* Every result the test programs (usertests.c) insist on is the one they get, and
\* no panic of fs.c is reached, in every interleaving of their processes; but for
\* ilock of an inode that a removed directory still names (its "..").
TestsPass ==
  verdict # "none" =>
    /\ verdict = "ilock: no type"
    /\ \E p \in Users : At(p, "lock") /\ itype[Reg(p)] = "none" /\ nlink[reg[p]["cur"]] = 0

Quiet == \A p \in Users : k[p] = <<>>

\* icache and ftable count what there is: whenever no call is in progress, an inode
\* has a reference for each process in it and each open file, a file one for each
\* descriptor, and an inode without a name is gone unless it is in use; but for
\* two iputs that overlap, each of which sees the reference of the other.
RefsCounted ==
  Quiet =>
    /\ \A f \in 1..NFILE : fref[f] = Cardinality({pd \in Users \X Fds : ofile[pd[1]][pd[2]] = f})
    /\ \A i \in Inums :
         /\ ref[i] = Cardinality({p \in Users : cwd[p] = i})
                   + Cardinality({f \in 1..NFILE : fref[f] > 0 /\ ftype[f] = "inode" /\ fip[f] = i})
         /\ itype[i] # "none" /\ nlink[i] = 0 /\ ref[i] = 0 => i \in lost

\* the names of an inode: entries in directories that are not removed, and the ".." of subdirectories
Named(i) == {dn \in Inums \X UNION {DOMAIN ents[d] : d \in Inums} :
               /\ dn[2] \in DOMAIN ents[dn[1]] /\ ents[dn[1]][dn[2]] = i
               /\ dn[2] # "." /\ nlink[dn[1]] > 0 /\ (dn[2] = ".." => dn[1] # i)}

\* nlink is the number of names (the root has none and starts with one).
LinksCounted ==
  Quiet => \A i \in Inums \ lost :
    itype[i] # "none" => nlink[i] = Cardinality(Named(i)) + (IF i = ROOTINO THEN 1 ELSE 0)

\* unlink, iput, fileclose and namex side by side: a name in a directory that is
\* not removed never leads to a free inode, and neither does an open file or the
\* current directory of a process; a file with descriptors is not closed.
NothingDangles ==
  /\ \A d \in Inums : itype[d] = "dir" /\ nlink[d] > 0 =>
       \A n \in DOMAIN ents[d] \ {".."} : ents[d][n] \in lost \/ itype[ents[d][n]] # "none"
  /\ \A f \in 1..NFILE : fref[f] > 0 =>
       ftype[f] # "none" /\ (ftype[f] = "inode" => itype[fip[f]] # "none")
  /\ \A p \in Users : cwd[p] # 0 /\ k[p] = <<>> => itype[cwd[p]] # "none"

\* a process that cannot go on, and one that has nothing to do
Blocked(p) ==
  \/ k[p] # <<>> /\ Now(p)[1] \in {"lock", "put"} /\ iowner[Reg(p)] # NoProc
  \/ At(p, "wait") /\ Children # {} /\ \A q \in Children : ~Exited(q)
Resting(p) == k[p] = <<>> /\ (p \notin forked \/ Exited(p))
\* Processes wait for each other for ever only through iput, which takes the lock
\* of an inode even when it has nothing to free: create and sys_unlink call it for
\* dp with ip locked, against the order of sys_unlink and dirlink, and
\* link(x, ".") calls it for the directory it has locked itself.
StuckOnlyInIput ==
  (/\ verdict = "none" /\ \E p \in Users : k[p] # <<>>
   /\ \A p \in Users : Blocked(p) \/ Resting(p)) =>
     \E p \in Users : At(p, "put") /\ iowner[Reg(p)] # NoProc /\ nlink[Reg(p)] > 0
=============================================================================
