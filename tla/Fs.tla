--------------------------------- MODULE Fs ---------------------------------
(***************************************************************************)
(* Inodes, directories and path names of src/xv6/kernel/fs.c, and the      *)
(* system calls of sysfile.c that change them: open, close, link, unlink,  *)
(* mkdir and chdir, by processes that run at the same time, with a crash   *)
(* at any point and ireclaim() after it.                                   *)
(*                                                                         *)
(* What a process does under the sleep-lock of an inode is one step, up to *)
(* the next lock it has to wait for; a lock that stays held over several   *)
(* steps is in lock[].  itable.lock covers single steps.                   *)
(*                                                                         *)
(* An inode in memory and its copy in the buffer cache are one here, as    *)
(* every change is followed by iupdate() under the lock; valid[] is apart, *)
(* since iput() asks for it.  The log is the abstract AtomicDisk: what is  *)
(* in the cache reaches the disk at once when the last call of a group     *)
(* ends.  File contents and data blocks are left out, but a directory that *)
(* has to grow may find the disk full.                                     *)
(***************************************************************************)
EXTENDS Integers, FiniteSets, Sequences

CONSTANTS
    N,                 \* processes
    Inodes,            \* inode numbers: 1..k, of which 1 is ROOTINO
    Names,             \* DIRSIZ names
    Workloads          \* of which one is run: [paths : SUBSET [abs : BOOLEAN,
                       \* elems : Seq(Names or "..")], the paths of the calls;
                       \* ops[p] : the calls that p makes; crash, full : may
                       \* the machine stop, may the disk be full?]

Root  == 1
Procs == 1..N
Elems == Names \cup {".."}
Calls == {"open", "creat", "close", "link", "unlink", "mkdir", "chdir"}

ASSUME FsAssumption ==
    /\ N \in Nat \ {0}
    /\ IsFiniteSet(Inodes) /\ Inodes = 1..Cardinality(Inodes) /\ Root \in Inodes
    /\ IsFiniteSet(Names) /\ ".." \notin Names
    /\ \A w \in Workloads :
          /\ \A q \in w.paths : q.abs \in BOOLEAN /\ q.elems \in Seq(Elems) \ {<<>>}
          /\ w.ops \in [Procs -> SUBSET Calls]
          /\ {w.crash, w.full} \subseteq BOOLEAN

VARIABLES
    type, nlink, ents,      \* inodes as they are in memory and in the cache
    committed,              \* the same on the disk
    ref, valid, lock,       \* itable: ip->ref, ip->valid, who holds ip->lock
    cwd, ofile,             \* struct proc: the directory, and one open file
    pc, op, path,           \* where a process is, in which call and path
    cur, ip,                \* inodes it has a reference to: ip or dp of
                            \* namex(), the other inode of the call
    victim, ret,            \* iput(victim), after which it is at ret
    fresh,                  \* ireclaim(): the next inode number
    work                    \* the workload, which never changes

inodeVars == <<type, nlink, ents>>
tableVars == <<ref, valid, lock>>
fileVars  == <<cwd, ofile>>
callVars  == <<op, path, cur, ip>>
putVars   == <<victim, ret>>
vars == <<inodeVars, committed, tableVars, fileVars, pc, callVars, putVars, fresh,
          work>>

NoEnts == [n \in Elems |-> 0]
Image  == [type |-> type, nlink |-> nlink, ents |-> ents]
InOp   == {p \in Procs : pc[p] \notin {"off", "idle", "reclaim"}}

TypeOK ==
    /\ type \in [Inodes -> {"free", "dir", "file"}]
    /\ nlink \in [Inodes -> Nat]
    /\ ents \in [Inodes -> [Elems -> Inodes \cup {0}]]
    /\ DOMAIN committed = {"type", "nlink", "ents"}
    /\ ref \in [Inodes -> Nat] /\ valid \in [Inodes -> BOOLEAN]
    /\ lock \in [Inodes -> 0..N]
    /\ cwd \in [Procs -> Inodes \cup {0}] /\ ofile \in [Procs -> Inodes \cup {0}]
    /\ pc \in [Procs -> {"off", "reclaim", "idle", "walk", "found", "parent",
                         "second", "bad", "existing", "created", "unlink", "unlinked",
                         "failed", "put", "trunc", "unref", "ifree", "end"}]
    /\ op \in [Procs -> Calls \cup {"none", "reclaim"}]
    /\ \A p \in Procs : path[p] \in Seq(Elems)
    /\ cur \in [Procs -> Inodes \cup {0}] /\ ip \in [Procs -> Inodes \cup {0}]
    /\ victim \in [Procs -> Inodes \cup {0}]
    /\ ret \in [Procs -> {"idle", "walk", "found", "second", "bad", "existing", "created",
                          "unlinked", "failed", "end"}]
    /\ fresh \in Nat /\ work \in Workloads

\* the file system mkfs makes, and every process in its root
Init ==
    /\ type = [i \in Inodes |-> IF i = Root THEN "dir" ELSE "free"]
    /\ nlink = [i \in Inodes |-> IF i = Root THEN 1 ELSE 0]
    /\ ents = [i \in Inodes |->
                 IF i = Root THEN [NoEnts EXCEPT ![".."] = Root] ELSE NoEnts]
    /\ committed = Image
    /\ ref = [i \in Inodes |-> IF i = Root THEN N ELSE 0]
    /\ valid = [i \in Inodes |-> FALSE] /\ lock = [i \in Inodes |-> 0]
    /\ cwd = [p \in Procs |-> Root] /\ ofile = [p \in Procs |-> 0]
    /\ pc = [p \in Procs |-> "idle"]
    /\ op = [p \in Procs |-> "none"] /\ path = [p \in Procs |-> <<>>]
    /\ cur = [p \in Procs |-> 0] /\ ip = [p \in Procs |-> 0]
    /\ victim = [p \in Procs |-> 0] /\ ret = [p \in Procs |-> "idle"]
    /\ fresh = Cardinality(Inodes) + 1 /\ work \in Workloads

-----------------------------------------------------------------------------
(* iget(), idup(), iput()                                                   *)

\* iget(i) and idup(i): an entry that nobody uses is set up again
iget(i) ==
    /\ ref' = [ref EXCEPT ![i] = @ + 1]
    /\ valid' = [valid EXCEPT ![i] = @ /\ ref[i] > 0]

Goto(p, to) == pc' = [pc EXCEPT ![p] = to]

\* call iput(i), and go on at next afterwards
CallPut(p, i, next) ==
    /\ Goto(p, "put")
    /\ victim' = [victim EXCEPT ![p] = i]
    /\ ret' = [ret EXCEPT ![p] = next]

\* ref--; what valid is says nothing once ref is 0
Unref(p) ==
    /\ ref' = [ref EXCEPT ![victim[p]] = @ - 1]
    /\ valid' = [valid EXCEPT ![victim[p]] = @ /\ ref[victim[p]] > 1]

Return(p) ==
    /\ Goto(p, ret[p])
    /\ victim' = [victim EXCEPT ![p] = 0]
    /\ ret' = [ret EXCEPT ![p] = "idle"]

Last(i) == ref[i] = 1 /\ valid[i] /\ nlink[i] = 0

\* not the last reference of an unlinked inode
PutRef(p) ==
    /\ pc[p] = "put" /\ ~Last(victim[p])
    /\ Unref(p) /\ Return(p)
    /\ UNCHANGED <<inodeVars, committed, lock, fileVars, callVars, fresh>>

\* it is: lock the inode, which nobody else can have locked
PutLast(p) ==
    LET i == victim[p]
    IN  /\ pc[p] = "put" /\ Last(i) /\ lock[i] = 0
        /\ lock' = [lock EXCEPT ![i] = p]
        /\ Goto(p, "trunc")
        /\ UNCHANGED <<inodeVars, committed, ref, valid, fileVars, callVars,
                       putVars, fresh>>

\* itrunc(): its content is gone, its type stays
Trunc(p) ==
    LET i == victim[p]
    IN  /\ pc[p] = "trunc" /\ Goto(p, "unref")
        /\ ents' = [ents EXCEPT ![i] = NoEnts]
        /\ valid' = [valid EXCEPT ![i] = FALSE]
        /\ lock' = [lock EXCEPT ![i] = 0]
        /\ UNCHANGED <<type, nlink, committed, ref, fileVars, callVars, putVars, fresh>>

PutUnref(p) ==
    /\ pc[p] = "unref" /\ Goto(p, "ifree")
    /\ Unref(p)
    /\ UNCHANGED <<inodeVars, committed, lock, fileVars, callVars, putVars, fresh>>

\* and only now may ialloc() find the inode
ifree(p) ==
    /\ pc[p] = "ifree" /\ Return(p)
    /\ type' = [type EXCEPT ![victim[p]] = "free"]
    /\ UNCHANGED <<nlink, ents, committed, tableVars, fileVars, callVars, fresh>>

iput(p) == PutRef(p) \/ PutLast(p) \/ Trunc(p) \/ PutUnref(p) \/ ifree(p)

-----------------------------------------------------------------------------
(* Path names: namei() and nameiparent()                                    *)

WantsParent(p) == op[p] \in {"creat", "mkdir", "unlink"} \/ ip[p] # 0

StartOf(p, q) == IF q.abs THEN Root ELSE cwd[p]

\* begin_op() and the start of namex()
Begin(p, o, q) ==
    /\ pc[p] = "idle" /\ o # "close"
    /\ o \in {"open", "creat"} => ofile[p] = 0
    /\ op' = [op EXCEPT ![p] = o] /\ path' = [path EXCEPT ![p] = q.elems]
    /\ cur' = [cur EXCEPT ![p] = StartOf(p, q)]
    /\ iget(StartOf(p, q))
    /\ Goto(p, "walk")
    /\ UNCHANGED <<inodeVars, committed, lock, fileVars, ip, putVars, fresh>>

\* what the inode lock protects can be used now: ilock() reads the inode
ilocked(i) == lock[i] = 0

\* namex() gives up: on to the end of the call, or to its error path
PutCur(p, next) ==
    /\ CallPut(p, cur[p], next)
    /\ cur' = [cur EXCEPT ![p] = 0]
    /\ path' = [path EXCEPT ![p] = <<>>]

GiveUp(p) == PutCur(p, IF ip[p] # 0 THEN "bad" ELSE "end")

NotDirOnly(i) == type[i] # "dir"  \* seeded fault: a removed directory will do

NotDir(i) == type[i] # "dir" \/ nlink[i] = 0

\* one element of the path: lock the directory, look, unlock
WalkStep(p) ==
    LET i    == cur[p]
        next == ents[i][Head(path[p])]
        last == Len(path[p]) = 1
    IN  /\ pc[p] = "walk" /\ ilocked(i)
        /\ UNCHANGED <<inodeVars, committed, lock, fileVars, op, ip, fresh>>
        /\ \/ /\ NotDir(i)
              /\ GiveUp(p)
              /\ valid' = [valid EXCEPT ![i] = TRUE]
              /\ UNCHANGED ref
           \/ /\ ~NotDir(i) /\ WantsParent(p) /\ last
              /\ Goto(p, "parent")
              /\ valid' = [valid EXCEPT ![i] = TRUE]
              /\ UNCHANGED <<ref, path, cur, putVars>>
           \/ /\ ~NotDir(i) /\ ~(WantsParent(p) /\ last) /\ next = 0
              /\ GiveUp(p)
              /\ valid' = [valid EXCEPT ![i] = TRUE]
              /\ UNCHANGED ref
           \/ /\ ~NotDir(i) /\ ~(WantsParent(p) /\ last) /\ next # 0
              /\ ref' = [ref EXCEPT ![next] = @ + 1]
              /\ valid' = [valid EXCEPT ![next] = @ /\ ref[next] > 0, ![i] = TRUE]
              /\ cur' = [cur EXCEPT ![p] = next]
              /\ path' = [path EXCEPT ![p] = Tail(@)]
              /\ CallPut(p, i, IF last THEN "found" ELSE "walk")

-----------------------------------------------------------------------------
(* open without O_CREATE, chdir, link, close                                *)

\* iunlockput() of the inode that was found
PutIp(p, next)  == CallPut(p, ip[p], next) /\ ip' = [ip EXCEPT ![p] = 0]

Found(p, o) == pc[p] = "found" /\ op[p] = o /\ ilocked(cur[p])

sys_open(p) ==
    /\ Found(p, "open") /\ Goto(p, "end")
    /\ ofile' = [ofile EXCEPT ![p] = cur[p]]
    /\ cur' = [cur EXCEPT ![p] = 0]
    /\ valid' = [valid EXCEPT ![cur[p]] = TRUE]
    /\ UNCHANGED <<inodeVars, committed, ref, lock, cwd, op, path, ip, putVars, fresh>>

\* p->cwd is set after end_op(); only p looks at it
sys_chdir(p) ==
    /\ Found(p, "chdir")
    /\ valid' = [valid EXCEPT ![cur[p]] = TRUE]
    /\ cur' = [cur EXCEPT ![p] = 0]
    /\ IF type[cur[p]] = "dir"
       THEN CallPut(p, cwd[p], "end") /\ cwd' = [cwd EXCEPT ![p] = cur[p]]
       ELSE CallPut(p, cur[p], "end") /\ UNCHANGED cwd
    /\ UNCHANGED <<inodeVars, committed, ref, lock, ofile, op, path, ip, fresh>>

\* link() of a directory is refused
LinkDir(p) ==
    /\ Found(p, "link") /\ type[cur[p]] = "dir"
    /\ PutCur(p, "end")
    /\ valid' = [valid EXCEPT ![cur[p]] = TRUE]
    /\ UNCHANGED <<inodeVars, committed, ref, lock, fileVars, op, ip, fresh>>

\* nlink++, and nameiparent() of the new path q
SecondWalk(p, q) ==
    LET i == cur[p]
        s == StartOf(p, q)
    IN  /\ Found(p, "link") /\ type[i] # "dir"
        /\ ip' = [ip EXCEPT ![p] = i]
        /\ path' = [path EXCEPT ![p] = q.elems]
        /\ cur' = [cur EXCEPT ![p] = s]
        /\ ref' = [ref EXCEPT ![s] = @ + 1]
        /\ valid' = [valid EXCEPT ![s] = @ /\ ref[s] > 0, ![i] = TRUE]
        /\ Goto(p, "walk")
        /\ UNCHANGED <<type, ents, committed, fileVars, op, putVars, fresh>>

LinkOldLocked(p, q) ==  \* seeded fault: ip stays locked
    /\ SecondWalk(p, q)
    /\ nlink' = [nlink EXCEPT ![cur[p]] = @ + 1]
    /\ lock' = [lock EXCEPT ![cur[p]] = p]

LinkOld(p, q) ==
    /\ SecondWalk(p, q)
    /\ nlink' = [nlink EXCEPT ![cur[p]] = @ + 1]
    /\ UNCHANGED lock

Parent(p, os) == pc[p] = "parent" /\ op[p] \in os /\ ilocked(cur[p])
Name(p) == path[p][1]
Taken(p) == ents[cur[p]][Name(p)] # 0

\* the directory was removed, the name is taken, or the disk is full
LinkFails(p) ==
    /\ Parent(p, {"link"})
    /\ nlink[cur[p]] = 0 \/ Taken(p) \/ work.full
    /\ PutCur(p, "bad")
    /\ UNCHANGED <<inodeVars, committed, tableVars, fileVars, op, ip, fresh>>

LinkNew(p) ==
    /\ Parent(p, {"link"}) /\ nlink[cur[p]] # 0 /\ ~Taken(p)
    /\ ents' = [ents EXCEPT ![cur[p]][Name(p)] = ip[p]]
    /\ PutCur(p, "second")
    /\ UNCHANGED <<type, nlink, committed, tableVars, fileVars, op, ip, fresh>>

LinkDone(p) ==
    /\ pc[p] = "second" /\ PutIp(p, "end")
    /\ UNCHANGED <<inodeVars, committed, tableVars, fileVars, op, path, cur, fresh>>

LinkBad(p) ==
    /\ pc[p] = "bad" /\ ilocked(ip[p])
    /\ nlink' = [nlink EXCEPT ![ip[p]] = @ - 1]
    /\ PutIp(p, "end")
    /\ UNCHANGED <<type, ents, committed, tableVars, fileVars, op, path, cur, fresh>>

sys_link(p) ==
    \/ LinkDir(p) \/ LinkFails(p) \/ LinkNew(p) \/ LinkDone(p) \/ LinkBad(p)
    \/ \E q \in work.paths : LinkOld(p, q)

\* fileclose() of the only reference to an open file
fileclose(p) ==
    /\ pc[p] = "idle" /\ ofile[p] # 0
    /\ op' = [op EXCEPT ![p] = "close"]
    /\ CallPut(p, ofile[p], "end")
    /\ ofile' = [ofile EXCEPT ![p] = 0]
    /\ UNCHANGED <<inodeVars, committed, tableVars, cwd, path, cur, ip, fresh>>

-----------------------------------------------------------------------------
(* unlink                                                                   *)

UnlinkNone(p) ==
    /\ Parent(p, {"unlink"}) /\ (Name(p) = ".." \/ ~Taken(p))
    /\ PutCur(p, "end")
    /\ UNCHANGED <<inodeVars, committed, tableVars, fileVars, op, ip, fresh>>

\* dirlookup() finds the entry; dp stays locked
UnlinkEntry(p) ==
    LET i == ents[cur[p]][Name(p)]
    IN  /\ Parent(p, {"unlink"}) /\ Name(p) # ".." /\ Taken(p)
        /\ Goto(p, "unlink")
        /\ iget(i)
        /\ ip' = [ip EXCEPT ![p] = i]
        /\ lock' = [lock EXCEPT ![cur[p]] = p]
        /\ UNCHANGED <<inodeVars, committed, fileVars, op, path, cur, putVars, fresh>>

isdirempty(i) == \A n \in Names : ents[i][n] = 0

UnlinkFull(p) ==
    /\ pc[p] = "unlink" /\ ilocked(ip[p])
    /\ type[ip[p]] = "dir" /\ ~isdirempty(ip[p])
    /\ PutIp(p, "failed")
    /\ valid' = [valid EXCEPT ![ip[p]] = TRUE]
    /\ UNCHANGED <<inodeVars, committed, ref, lock, fileVars, op, path, cur, fresh>>

\* erase the entry and, for a directory, the link its ".." was; unlock dp
Erase(p) ==
    LET i == ip[p]
        dp == cur[p]
    IN  /\ pc[p] = "unlink" /\ ilocked(i)
        /\ ents' = [ents EXCEPT ![dp][Name(p)] = 0]
        /\ nlink' = IF type[i] = "dir" THEN [nlink EXCEPT ![dp] = @ - 1] ELSE nlink
        /\ lock' = [lock EXCEPT ![dp] = 0, ![i] = p]
        /\ valid' = [valid EXCEPT ![i] = TRUE]
        /\ PutCur(p, "unlinked")
        /\ UNCHANGED <<type, committed, ref, fileVars, op, ip, fresh>>

UnlinkOk(p) == Erase(p) /\ (type[ip[p]] = "dir" => isdirempty(ip[p]))

UnlinkDone(p) ==
    /\ pc[p] = "unlinked"
    /\ nlink' = [nlink EXCEPT ![ip[p]] = @ - 1]
    /\ lock' = [lock EXCEPT ![ip[p]] = 0]
    /\ PutIp(p, "end")
    /\ UNCHANGED <<type, ents, committed, ref, valid, fileVars, op, path, cur, fresh>>

\* iunlockput(dp) of unlink() and create() after a failure
FailedDone(p) ==
    /\ pc[p] = "failed"
    /\ lock' = [lock EXCEPT ![cur[p]] = 0]
    /\ PutCur(p, "end")
    /\ UNCHANGED <<inodeVars, committed, ref, valid, fileVars, op, ip, fresh>>

sys_unlink(p) ==
    \/ UnlinkNone(p) \/ UnlinkEntry(p) \/ UnlinkFull(p) \/ UnlinkOk(p)
    \/ UnlinkDone(p)

-----------------------------------------------------------------------------
(* create(), for open with O_CREATE and for mkdir                           *)

Creates == {"creat", "mkdir"}
Free    == {i \in Inodes : type[i] = "free"}
ialloc  == CHOOSE i \in Free : \A j \in Free : i <= j

\* the directory was removed, or there is no free inode
CreateNone(p) ==
    /\ Parent(p, Creates)
    /\ nlink[cur[p]] = 0 \/ (~Taken(p) /\ Free = {})
    /\ PutCur(p, "end")
    /\ UNCHANGED <<inodeVars, committed, tableVars, fileVars, op, ip, fresh>>

\* the name exists
CreateTaken(p) ==
    LET i == ents[cur[p]][Name(p)]
    IN  /\ Parent(p, Creates) /\ nlink[cur[p]] # 0 /\ Taken(p)
        /\ iget(i)
        /\ ip' = [ip EXCEPT ![p] = i]
        /\ PutCur(p, "existing")
        /\ UNCHANGED <<inodeVars, committed, lock, fileVars, op, fresh>>

OpenIp(p) ==
    /\ Goto(p, "end")
    /\ ofile' = [ofile EXCEPT ![p] = ip[p]]
    /\ ip' = [ip EXCEPT ![p] = 0]
    /\ UNCHANGED <<cwd, putVars>>

CreateExisting(p) ==
    /\ pc[p] = "existing" /\ ilocked(ip[p])
    /\ valid' = [valid EXCEPT ![ip[p]] = TRUE]
    /\ IF op[p] = "creat" /\ type[ip[p]] = "file"
       THEN OpenIp(p)
       ELSE PutIp(p, "end") /\ UNCHANGED fileVars
    /\ UNCHANGED <<inodeVars, committed, ref, lock, op, path, cur, fresh>>

\* ialloc(), iget() and ilock() of a new inode i
NewInode(p, i, links) ==
    /\ Parent(p, Creates) /\ nlink[cur[p]] # 0 /\ ~Taken(p)
    /\ i \in Free /\ i = ialloc
    /\ type' = [type EXCEPT ![i] = IF op[p] = "mkdir" THEN "dir" ELSE "file"]
    /\ nlink' = links
    /\ ref' = [ref EXCEPT ![i] = @ + 1]
    /\ valid' = [valid EXCEPT ![i] = TRUE]
    /\ UNCHANGED <<committed, fileVars, op, fresh>>

DotDot(p, i) ==
    [ents EXCEPT ![i] = [NoEnts EXCEPT ![".."] = IF op[p] = "mkdir" THEN cur[p] ELSE 0]]

\* the new entries are written, dp is unlocked, and the new inode stays locked
CreateNew(p) ==
    \E i \in Free :
        /\ NewInode(p, i, [nlink EXCEPT ![i] = 1,
                               ![cur[p]] = @ + (IF op[p] = "mkdir" THEN 1 ELSE 0)])
        /\ ents' = [DotDot(p, i) EXCEPT ![cur[p]][Name(p)] = i]
        /\ lock' = [lock EXCEPT ![i] = p]
        /\ ip' = [ip EXCEPT ![p] = i]
        /\ PutCur(p, "created")

\* a dirlink() fails half-way: nlink = 0, and iput() frees the inode, under
\* the lock of dp
CreateFails(p) ==
    \E i \in Free :
        /\ work.full
        /\ NewInode(p, i, [nlink EXCEPT ![i] = 0])
        /\ ents' = DotDot(p, i)
        /\ lock' = [lock EXCEPT ![cur[p]] = p]
        /\ CallPut(p, i, "failed")
        /\ UNCHANGED <<path, cur, ip>>

CreateDone(p) ==
    /\ pc[p] = "created"
    /\ lock' = [lock EXCEPT ![ip[p]] = 0]
    /\ IF op[p] = "creat" THEN OpenIp(p) ELSE PutIp(p, "end") /\ UNCHANGED fileVars
    /\ UNCHANGED <<inodeVars, committed, ref, valid, op, path, cur, fresh>>

create(p) ==
    \/ CreateNone(p) \/ CreateTaken(p) \/ CreateExisting(p)
    \/ CreateNew(p) \/ CreateFails(p) \/ CreateDone(p)

-----------------------------------------------------------------------------
(* Transactions, crash, recovery                                            *)

\* the last call of a group commits for all (what the disk holds is of no
\* interest if the machine never stops)
commitAlone(p) == committed' = Image  \* seeded fault: the group is not awaited

commit(p) == committed' = IF InOp \ {p} = {} /\ work.crash THEN Image ELSE committed

end_op(p) ==
    /\ pc[p] = "end"
    /\ Goto(p, IF op[p] = "reclaim" THEN "reclaim" ELSE "idle")
    /\ op' = [op EXCEPT ![p] = "none"] /\ path' = [path EXCEPT ![p] = <<>>]
    /\ commit(p)
    /\ UNCHANGED <<inodeVars, tableVars, fileVars, cur, ip, putVars, fresh>>

\* what is not committed is lost; the first process runs fsinit()
Crash ==
    /\ work.crash
    /\ type' = committed.type /\ nlink' = committed.nlink /\ ents' = committed.ents
    /\ cwd' = [p \in Procs |-> IF p = 1 THEN Root ELSE 0]
    /\ ofile' = [p \in Procs |-> 0]
    /\ ref' = [i \in Inodes |-> IF i = Root THEN 1 ELSE 0]
    /\ valid' = [i \in Inodes |-> FALSE] /\ lock' = [i \in Inodes |-> 0]
    /\ pc' = [p \in Procs |-> IF p = 1 THEN "reclaim" ELSE "off"]
    /\ op' = [p \in Procs |-> "none"] /\ path' = [p \in Procs |-> <<>>]
    /\ cur' = [p \in Procs |-> 0] /\ ip' = [p \in Procs |-> 0]
    /\ victim' = [p \in Procs |-> 0] /\ ret' = [p \in Procs |-> "idle"]
    /\ fresh' = 1
    /\ UNCHANGED committed

Orphan(i) == type[i] # "free" /\ nlink[i] = 0

\* iget(), begin_op(), ilock(), iunlock(), and iput() of an orphan
ReclaimUnlocked(p) ==  \* seeded fault: without ilock() the inode is not read
    /\ pc[p] = "reclaim" /\ fresh \in Inodes
    /\ fresh' = fresh + 1
    /\ op' = [op EXCEPT ![p] = "reclaim"]
    /\ IF Orphan(fresh)
       THEN iget(fresh) /\ CallPut(p, fresh, "end")
       ELSE UNCHANGED <<ref, valid, pc, putVars>>
    /\ UNCHANGED <<inodeVars, committed, lock, fileVars, path, cur, ip>>

Reclaim(p) ==
    /\ pc[p] = "reclaim" /\ fresh \in Inodes
    /\ fresh' = fresh + 1
    /\ op' = [op EXCEPT ![p] = "reclaim"]
    /\ IF Orphan(fresh)
       THEN /\ ref' = [ref EXCEPT ![fresh] = @ + 1]
            /\ valid' = [valid EXCEPT ![fresh] = TRUE]
            /\ CallPut(p, fresh, "end")
       ELSE UNCHANGED <<ref, valid, pc, putVars>>
    /\ UNCHANGED <<inodeVars, committed, lock, fileVars, path, cur, ip>>

\* the other processes are forked, in the directory of the first
ReclaimDone(p) ==
    /\ pc[p] = "reclaim" /\ fresh \notin Inodes
    /\ pc' = [q \in Procs |-> "idle"]
    /\ op' = [q \in Procs |-> "none"]
    /\ cwd' = [q \in Procs |-> cwd[p]]
    /\ ref' = [ref EXCEPT ![cwd[p]] = @ + N - 1]
    /\ UNCHANGED <<inodeVars, committed, valid, lock, ofile, path, cur, ip, putVars, fresh>>

ireclaim(p) == Reclaim(p) \/ ReclaimDone(p)

-----------------------------------------------------------------------------
SysCall(p) ==
    \/ \E o \in work.ops[p], q \in work.paths : Begin(p, o, q)
    \/ WalkStep(p) \/ sys_open(p) \/ sys_chdir(p) \/ sys_link(p) \/ sys_unlink(p)
    \/ create(p) \/ FailedDone(p) \/ (fileclose(p) /\ "close" \in work.ops[p])

Next ==
    /\ UNCHANGED work
    /\ \/ Crash
       \/ \E p \in Procs : SysCall(p) \/ iput(p) \/ end_op(p) \/ ireclaim(p)

Spec == Init /\ [][Next]_vars

-----------------------------------------------------------------------------
\* the links of i: entries of directories that are not removed, ".." included,
\* and one for the root
Links(im, i) ==
    Cardinality({e \in Inodes \X Elems :
                    /\ im.type[e[1]] = "dir" /\ im.nlink[e[1]] > 0
                    /\ im.ents[e[1]][e[2]] = i
                    /\ ~(e[1] = Root /\ e[2] = "..")})
    + (IF i = Root THEN 1 ELSE 0)

\* Between calls, and on the disk at any time, so after every crash: nlink is
\* the number of names an inode has, no name leads to a free inode, and a
\* removed directory is empty (sysfile.c:151, 178, 239, 244, 297, 311).
LinksExact ==
    LET Exact(im) ==
            /\ \A i \in Inodes : im.type[i] # "free" => im.nlink[i] = Links(im, i)
            /\ \A d \in Inodes, n \in Elems :
                 im.type[d] = "dir" /\ im.nlink[d] > 0 /\ im.ents[d][n] # 0 =>
                     im.type[im.ents[d][n]] # "free"
            /\ \A d \in Inodes, n \in Names :
                 im.type[d] = "dir" /\ im.nlink[d] = 0 => im.ents[d][n] = 0
    IN  Exact(committed) /\ (InOp = {} => Exact(Image))

\* Whoever has a reference to an inode, as a working directory, an open file,
\* or in the middle of a call, never sees it freed, and so never sees it
\* become another file: neither the names it had nor the moment at which it
\* lost the last one matter (fs.c:316, fs.c:700, fs.c:357).
Users(i) ==
    {<<p, "cwd">>    : p \in {p \in Procs : cwd[p] = i}} \cup
    {<<p, "ofile">>  : p \in {p \in Procs : ofile[p] = i}} \cup
    {<<p, "cur">>    : p \in {p \in Procs : cur[p] = i}} \cup
    {<<p, "ip">>     : p \in {p \in Procs : ip[p] = i}} \cup
    {<<p, "victim">> : p \in {p \in Procs : victim[p] = i /\ pc[p] # "ifree"}}

InUse ==
    \A i \in Inodes :
        /\ ref[i] = Cardinality(Users(i))
        /\ ref[i] > 0 => type[i] # "free"

\* An inode that has no name left is freed when nobody uses it any more, and
\* one that a crash orphaned is found by ireclaim() (fs.c:357, 395).
NoOrphan ==
    InOp = {} /\ fresh \notin Inodes => \A i \in Inodes : Orphan(i) => ref[i] > 0

\* iput() takes the sleep-lock of the inode with itable.lock held, where it
\* must not sleep (fs.c:361 "ip->ref == 1 means no other process can have ip
\* locked").
PutNeverSleeps ==
    \A p \in Procs : pc[p] = "put" /\ Last(victim[p]) => lock[victim[p]] = 0

\* What iget(), idup() and iput() keep of the inode table.
Inv == TypeOK /\ InUse /\ PutNeverSleeps

\* the inode whose lock p waits for
Wants(p) ==
    CASE pc[p] \in {"walk", "found", "parent"}  -> cur[p]
      [] pc[p] \in {"bad", "existing", "unlink"} -> ip[p]
      [] OTHER -> 0

\* A process that holds the lock of one inode and waits for that of another
\* goes down the tree: no two wait for each other (sysfile.c:218-226, 267-294).
LocksDown ==
    \A p \in Procs, i \in Inodes :
        Wants(p) # 0 /\ lock[i] = p =>
            type[i] = "dir" /\ \E n \in Names : ents[i][n] = Wants(p)
=============================================================================
